---------------------------- MODULE Spec2Model ----------------------------
(***************************************************************************)
(* tele-yt-bot: a Telegram bot that resolves a YouTube URL to a list of    *)
(* renditions and delivers the chosen one.  The repository holds several   *)
(* complete bot programs (one is run at a time):                           *)
(*   "playdl"   src/index.js 1-270          play-dl, temp files            *)
(*   "fallback" src/index.js 272-635        ytdl-core with yt-dlp fallback *)
(*   "wrap"     src/unnamed/part_001        yt-dlp-wrap, temp files, sweep *)
(*   "active"   src/unnamed/part_002 1-714  play-dl with activeDownloads   *)
(* The variable `variant` records which program is running.                *)
(***************************************************************************)
EXTENDS Integers, Sequences, FiniteSets, TLC

VARIABLES
  variant,          \* which of the repository's programs is running
  boot,             \* BOT_TOKEN, how far startup got, whether the bot object exists
  \* ---- getFormatsInfo (fallback variant) ----
  rpc,              \* position of the resolve: idle, primary, fallback, returned, threw
  primaryCalls,     \* number of ytdl.getInfo calls of the resolve
  fallbackCalls,    \* number of ytdlExec (yt-dlp) calls of the resolve
  caught,           \* the error caught from the primary backend (err), or NoErr
  result,           \* what getFormatsInfo returned or threw
  raw,              \* the raw format list the backend answered with
  menu,             \* what the URL handler put into its status message
  \* ---- callback handlers and downloads (temp-file variants) ----
  pc,               \* position of each callback handler
  req,              \* each handler's query: user and callback data
  loc,              \* each handler's local variables
  activeDownloads,  \* the Set of download keys (active variant)
  files,            \* TEMP_DIR: path -> [size, mtime, creator]
  now,              \* Date.now()
  sink              \* per handler, the sizes handed to sendVideo / sendAudio / replyWith*

vars == <<variant, boot, rpc, primaryCalls, fallbackCalls, caught, result, raw, menu,
          pc, req, loc, activeDownloads, files, now, sink>>

resolveVars == <<boot, rpc, primaryCalls, fallbackCalls, caught, result, raw, menu>>
handlerVars == <<boot, pc, req, loc, activeDownloads, files, now, sink>>

\* the bot is constructed with a token and receives updates
Launched == [token |-> TRUE, stage |-> "polling", bot |-> TRUE, ytdlp |-> TRUE]

\* updates reach the handlers: the bot polls with a token Telegram accepts
Running == boot.stage = "polling" /\ boot.token

-----------------------------------------------------------------------------
(* Bounds of the model *)

MaxFormats == 2     \* longest raw format list a backend returns
MaxTicks == 1       \* milliseconds Date.now() advances in one run
MaxSweeps == 3      \* runs of the periodic temp-directory sweep

-----------------------------------------------------------------------------
(* JavaScript values and string functions *)

None == "<undefined>"      \* undefined / null / absent property
NaN == -1                  \* parseInt's NaN (no input of the model is negative)

Digits == "0123456789"

IsDigit(c) == \E i \in 1..10 : SubSeq(Digits, i, i) = c

DigitVal(c) == (CHOOSE i \in 1..10 : SubSeq(Digits, i, i) = c) - 1

\* String.prototype.includes
Includes(s, p) ==
  \E i \in 1..(Len(s) - Len(p) + 1) : SubSeq(s, i, i + Len(p) - 1) = p

\* String.prototype.startsWith
StartsWith(s, p) == Len(s) >= Len(p) /\ SubSeq(s, 1, Len(p)) = p

Upper == "ABCDEFGHIJKLMNOPQRSTUVWXYZ"
Lower == "abcdefghijklmnopqrstuvwxyz"

LowerChar(c) ==
  IF \E i \in 1..26 : SubSeq(Upper, i, i) = c
  THEN LET i == CHOOSE j \in 1..26 : SubSeq(Upper, j, j) = c IN SubSeq(Lower, i, i)
  ELSE c

RECURSIVE ToLowerCase(_)
\* String.prototype.toLowerCase
ToLowerCase(s) ==
  IF Len(s) = 0 THEN "" ELSE LowerChar(SubSeq(s, 1, 1)) \o ToLowerCase(Tail(s))

RECURSIVE LeadingDigits(_)
LeadingDigits(s) ==
  IF Len(s) > 0 /\ IsDigit(SubSeq(s, 1, 1))
  THEN SubSeq(s, 1, 1) \o LeadingDigits(Tail(s))
  ELSE ""

RECURSIVE DigitsValue(_, _)
DigitsValue(s, acc) ==
  IF Len(s) = 0 THEN acc
  ELSE DigitsValue(Tail(s), 10 * acc + DigitVal(SubSeq(s, 1, 1)))

\* parseInt(s) on a string without sign or leading blanks: the leading
\* decimal digits, NaN when there are none
ParseInt(s) ==
  IF s = None THEN NaN
  ELSE LET d == LeadingDigits(s) IN IF Len(d) = 0 THEN NaN ELSE DigitsValue(d, 0)

\* parseInt(x) || 0   (NaN and 0 are falsy)
ParseIntOr0(s) == LET n == ParseInt(s) IN IF n = NaN THEN 0 ELSE n

RECURSIVE NumToStr(_)
\* String(n) of a non-negative integer
NumToStr(n) ==
  IF n < 10 THEN SubSeq(Digits, n + 1, n + 1)
  ELSE NumToStr(n \div 10) \o SubSeq(Digits, (n % 10) + 1, (n % 10) + 1)

\* String.prototype.indexOf of a one-character separator, 0 when absent
IndexOf(s, sep) ==
  LET hits == {i \in 1..Len(s) : SubSeq(s, i, i) = sep}
  IN IF hits = {} THEN 0 ELSE CHOOSE i \in hits : \A j \in hits : i <= j

RECURSIVE Split(_, _)
\* String.prototype.split on a one-character separator
Split(s, sep) ==
  LET i == IndexOf(s, sep)
  IN IF i = 0 THEN <<s>>
     ELSE <<SubSeq(s, 1, i - 1)>> \o Split(SubSeq(s, i + 1, Len(s)), sep)

RECURSIVE Join(_, _)
\* Array.prototype.join
Join(parts, sep) ==
  IF Len(parts) = 0 THEN ""
  ELSE IF Len(parts) = 1 THEN parts[1]
  ELSE parts[1] \o sep \o Join(Tail(parts), sep)

\* all sequences over S of length at most n
SeqsUpTo(S, n) == UNION {[1..k -> S] : k \in 0..n}

\* a string that is truthy in JavaScript
Truthy(s) == s # None /\ s # ""

RECURSIVE InsertDesc(_, _)
\* insert x into a sequence sorted by descending rank, after its equals
InsertDesc(sorted, x) ==
  IF Len(sorted) = 0 THEN <<x>>
  ELSE IF sorted[1].rank >= x.rank THEN <<sorted[1]>> \o InsertDesc(Tail(sorted), x)
  ELSE <<x>> \o sorted

RECURSIVE SortDesc(_)
\* Array.prototype.sort with comparator (a, b) => rank(b) - rank(a): stable
SortDesc(seq) ==
  IF Len(seq) = 0 THEN <<>>
  ELSE InsertDesc(SortDesc(SubSeq(seq, 1, Len(seq) - 1)), seq[Len(seq)])

Ranked(seq, Rank(_)) == [i \in 1..Len(seq) |-> [rank |-> Rank(seq[i]), val |-> seq[i]]]

Unranked(seq) == [i \in 1..Len(seq) |-> seq[i].val]

\* a property key that is an array index ("0", "720"): Object.keys lists
\* these first, in ascending numeric order
IsArrayIndex(k) ==
  /\ Len(k) > 0
  /\ LeadingDigits(k) = k
  /\ (Len(k) > 1 => SubSeq(k, 1, 1) # "0")

NegIndex(k) == 0 - ParseInt(k)

NotArrayIndex(k) == ~IsArrayIndex(k)

\* Object.keys of an object whose keys were inserted in the order of `keys`
ObjectKeys(keys) ==
  Unranked(SortDesc(Ranked(SelectSeq(keys, IsArrayIndex), NegIndex)))
    \o SelectSeq(keys, NotArrayIndex)

-----------------------------------------------------------------------------
(* getFormatsInfo: ytdl-core first, yt-dlp on extractor-like errors *)

\* raw formats of ytdl.getInfo
PrimaryFormats ==
  { [itag |-> 22, container |-> "mp4", hasVideo |-> TRUE, hasAudio |-> TRUE,
     qualityLabel |-> "720p", height |-> 720, contentLength |-> "900", bitrate |-> 2],
    [itag |-> 136, container |-> "mp4", hasVideo |-> TRUE, hasAudio |-> TRUE,
     qualityLabel |-> "720p", height |-> 720, contentLength |-> "1000", bitrate |-> 3],
    [itag |-> 18, container |-> "mp4", hasVideo |-> TRUE, hasAudio |-> TRUE,
     qualityLabel |-> None, height |-> 360, contentLength |-> None, bitrate |-> 1],
    [itag |-> 17, container |-> "3gp", hasVideo |-> TRUE, hasAudio |-> TRUE,
     qualityLabel |-> None, height |-> 0, contentLength |-> None, bitrate |-> 0],
    [itag |-> 137, container |-> "mp4", hasVideo |-> TRUE, hasAudio |-> FALSE,
     qualityLabel |-> "1080p", height |-> 1080, contentLength |-> "5000", bitrate |-> 4],
    [itag |-> 140, container |-> "mp4", hasVideo |-> FALSE, hasAudio |-> TRUE,
     qualityLabel |-> None, height |-> 0, contentLength |-> "100", bitrate |-> 128],
    [itag |-> 251, container |-> "webm", hasVideo |-> FALSE, hasAudio |-> TRUE,
     qualityLabel |-> None, height |-> 0, contentLength |-> None, bitrate |-> 160],
    [itag |-> 249, container |-> None, hasVideo |-> FALSE, hasAudio |-> TRUE,
     qualityLabel |-> None, height |-> 0, contentLength |-> None, bitrate |-> 300] }

Titles == {"clip", None}

\* the muxed renditions of a full listing, in the backend's order: more
\* heights than a keyboard shows, one format without a height and one whose
\* label carries a frame rate
LadderRows ==
  << [height |-> 360, note |-> None], [height |-> 0, note |-> None],
     [height |-> 720, note |-> "720p60"], [height |-> 1080, note |-> None],
     [height |-> 720, note |-> None], [height |-> 480, note |-> None],
     [height |-> 240, note |-> None], [height |-> 144, note |-> None] >>

\* a full listing of ytdl.getInfo: the muxed renditions, then two audio-only
\* formats of the same bitrate
PrimaryLadder ==
  [i \in 1..Len(LadderRows) |->
     [itag |-> 300 + i, container |-> "mp4", hasVideo |-> TRUE, hasAudio |-> TRUE,
      qualityLabel |-> LadderRows[i].note, height |-> LadderRows[i].height,
      contentLength |-> None, bitrate |-> 1]]
    \o << [itag |-> 140, container |-> "mp4", hasVideo |-> FALSE, hasAudio |-> TRUE,
           qualityLabel |-> None, height |-> 0, contentLength |-> None, bitrate |-> 128],
          [itag |-> 139, container |-> "mp4", hasVideo |-> FALSE, hasAudio |-> TRUE,
           qualityLabel |-> None, height |-> 0, contentLength |-> None, bitrate |-> 128] >>

\* a listing with one rendition above and one below Telegram's 50 MB, and
\* one audio-only format
SizedListing ==
  << [itag |-> 37, container |-> "mp4", hasVideo |-> TRUE, hasAudio |-> TRUE,
      qualityLabel |-> "1080p", height |-> 1080, contentLength |-> "80000000",
      bitrate |-> 4],
     [itag |-> 45, container |-> "mp4", hasVideo |-> TRUE, hasAudio |-> TRUE,
      qualityLabel |-> "720p", height |-> 720, contentLength |-> "40000000",
      bitrate |-> 2],
     [itag |-> 141, container |-> "mp4", hasVideo |-> FALSE, hasAudio |-> TRUE,
      qualityLabel |-> None, height |-> 0, contentLength |-> None,
      bitrate |-> 128000] >>

\* what ytdl.getInfo resolves to
PrimaryInfos ==
  {[formats |-> fs, title |-> t] : fs \in SeqsUpTo(PrimaryFormats, MaxFormats), t \in Titles}
    \cup {[formats |-> PrimaryLadder, title |-> "clip"],
          [formats |-> SizedListing, title |-> "clip"]}

\* raw formats of yt-dlp's JSON dump (tbr in tenths of kbps, filesize 0 when
\* the dump has none)
FallbackFormats ==
  { [format_id |-> "22", format |-> None, vcodec |-> "avc1", acodec |-> "mp4a",
     format_note |-> "720p", height |-> 720, tbr |-> 0, abr |-> 0, bitrate |-> 0,
     filesize |-> 0],
    [format_id |-> "136", format |-> None, vcodec |-> "avc1", acodec |-> "mp4a",
     format_note |-> "720p", height |-> 720, tbr |-> 0, abr |-> 0, bitrate |-> 0,
     filesize |-> 1000],
    [format_id |-> "18", format |-> None, vcodec |-> "avc1", acodec |-> "mp4a",
     format_note |-> None, height |-> 360, tbr |-> 0, abr |-> 0, bitrate |-> 0,
     filesize |-> 0],
    [format_id |-> None, format |-> "sb0", vcodec |-> None, acodec |-> "mp4a",
     format_note |-> None, height |-> 0, tbr |-> 1285, abr |-> 0, bitrate |-> 0,
     filesize |-> 0],
    [format_id |-> "140", format |-> None, vcodec |-> "none", acodec |-> "mp4a",
     format_note |-> "medium", height |-> 0, tbr |-> 0, abr |-> 128, bitrate |-> 0,
     filesize |-> 100],
    [format_id |-> "251", format |-> None, vcodec |-> "none", acodec |-> "opus",
     format_note |-> None, height |-> 0, tbr |-> 0, abr |-> 0, bitrate |-> 160,
     filesize |-> 0],
    [format_id |-> "137", format |-> None, vcodec |-> "avc1", acodec |-> "none",
     format_note |-> "1080p", height |-> 1080, tbr |-> 0, abr |-> 0, bitrate |-> 0,
     filesize |-> 5000],
    [format_id |-> None, format |-> None, vcodec |-> "avc1", acodec |-> "mp4a",
     format_note |-> "240p", height |-> 240, tbr |-> 0, abr |-> 0, bitrate |-> 0,
     filesize |-> 300] }

\* the same full listing as yt-dlp dumps it
FallbackLadder ==
  [i \in 1..Len(LadderRows) |->
     [format_id |-> NumToStr(300 + i), format |-> None, vcodec |-> "avc1",
      acodec |-> "mp4a", format_note |-> LadderRows[i].note,
      height |-> LadderRows[i].height, tbr |-> 0, abr |-> 0, bitrate |-> 0,
      filesize |-> 0]]
    \o << [format_id |-> "140", format |-> None, vcodec |-> "none", acodec |-> "mp4a",
           format_note |-> None, height |-> 0, tbr |-> 0, abr |-> 128, bitrate |-> 0,
           filesize |-> 0],
          [format_id |-> "139", format |-> None, vcodec |-> "none", acodec |-> "mp4a",
           format_note |-> None, height |-> 0, tbr |-> 0, abr |-> 128, bitrate |-> 0,
           filesize |-> 0] >>

\* what ytdlExec resolves to: null, an object without formats, or a dump
FallbackJsons ==
  {[isNull |-> TRUE, hasFormats |-> FALSE, formats |-> <<>>, title |-> None],
   [isNull |-> FALSE, hasFormats |-> FALSE, formats |-> <<>>, title |-> "clip"]}
    \cup {[isNull |-> FALSE, hasFormats |-> TRUE, formats |-> fs, title |-> t] :
            fs \in SeqsUpTo(FallbackFormats, MaxFormats), t \in Titles}
    \cup {[isNull |-> FALSE, hasFormats |-> TRUE, formats |-> FallbackLadder,
           title |-> "clip"]}

NoErr == [origin |-> "none", message |-> ""]

\* errors ytdl.getInfo rejects with
PrimaryErrors ==
  {[origin |-> "primary", message |-> m] :
     m \in {"Status code: 410", "status code: 410", "Status code: 403",
            "Could not find Extractor function", "Signature decipher failed",
            "This is a private video", "Not a YouTube domain",
            "getaddrinfo ENOTFOUND www.youtube.com"}}

\* errors ytdlExec rejects with
FallbackErrors ==
  {[origin |-> "fallback", message |-> m] : m \in {"yt-dlp exited with code 1", "spawn ENOENT"}}

NoFormatsError == [origin |-> "fallback", message |-> "yt-dlp returned no formats"]

\* audio: null
NoAudio == [itag |-> None, source |-> None]

NoResult == [kind |-> "none"]

Thrown(err) == [kind |-> "error", err |-> err]

\* index of key q in the insertion-ordered object, 0 when absent
KeyIndex(resMap, q) ==
  IF \E i \in 1..Len(resMap) : resMap[i].key = q
  THEN CHOOSE i \in 1..Len(resMap) : resMap[i].key = q
  ELSE 0

Keys(resMap) == [i \in 1..Len(resMap) |-> resMap[i].key]

ValueOf(resMap, q) == resMap[KeyIndex(resMap, q)].val

LabelRank(label) == ParseIntOr0(label)

\* the labels as Object.keys lists them, without the sort
UnsortedLabels(resMap) == ObjectKeys(Keys(resMap))

\* Object.keys(resMap).sort((a, b) => (parseInt(b) || 0) - (parseInt(a) || 0))
SortedLabels(resMap) == Unranked(SortDesc(Ranked(ObjectKeys(Keys(resMap)), LabelRank)))

\* f.container && (f.hasVideo || f.hasAudio)
PrimaryUsable(f) == Truthy(f.container) /\ (f.hasVideo \/ f.hasAudio)

PrimaryIsVideo(f) == f.hasVideo /\ f.hasAudio

PrimaryIsAudio(f) == f.hasAudio /\ ~f.hasVideo

\* f.qualityLabel || (f.height ? `${f.height}p` : 'unknown')
PrimaryLabel(f) ==
  IF Truthy(f.qualityLabel) THEN f.qualityLabel
  ELSE IF f.height # 0 THEN NumToStr(f.height) \o "p"
  ELSE "unknown"

\* parseInt(f.contentLength || 0, 10) || 0
PrimaryLength(f) == IF Truthy(f.contentLength) THEN ParseIntOr0(f.contentLength) ELSE 0

\* a grouping that would keep every format as an entry of its own
EveryFormatKept(videoFormats) ==
  [i \in 1..Len(videoFormats) |->
     [key |-> PrimaryLabel(videoFormats[i]),
      val |-> [itag |-> videoFormats[i].itag,
               contentLength |-> PrimaryLength(videoFormats[i])]]]

RECURSIVE PrimaryResMap(_)
\* the forEach over videoFormats: keep the larger contentLength per label
PrimaryResMap(videoFormats) ==
  IF Len(videoFormats) = 0 THEN <<>>
  ELSE LET resMap == PrimaryResMap(SubSeq(videoFormats, 1, Len(videoFormats) - 1))
           f == videoFormats[Len(videoFormats)]
           q == PrimaryLabel(f)
           cur == PrimaryLength(f)
           i == KeyIndex(resMap, q)
           entry == [key |-> q, val |-> [itag |-> f.itag, contentLength |-> cur]]
       IN IF i = 0 THEN Append(resMap, entry)
          ELSE IF cur > resMap[i].val.contentLength THEN [resMap EXCEPT ![i] = entry]
          ELSE resMap

PrimarySourceTag == "ytdl"

PrimaryBitrate(f) == f.bitrate

\* a choice that would take the first audio-only format, whatever its bitrate
FirstAudio(formats) ==
  LET audioFormats == SelectSeq(formats, PrimaryIsAudio)
  IN IF Len(audioFormats) = 0 THEN NoAudio
     ELSE [itag |-> NumToStr(audioFormats[1].itag), source |-> "ytdl"]

\* audioFormats.sort((a, b) => (b.bitrate || 0) - (a.bitrate || 0))[0]
PrimaryBestAudio(formats) ==
  LET audioFormats == SelectSeq(formats, PrimaryIsAudio)
  IN IF Len(audioFormats) = 0 THEN NoAudio
     ELSE [itag |-> NumToStr(Unranked(SortDesc(Ranked(audioFormats, PrimaryBitrate)))[1].itag),
           source |-> PrimarySourceTag]

\* the object returned on the ytdl-core branch
PrimaryCatalog(info) ==
  LET formats == SelectSeq(info.formats, PrimaryUsable)
      resMap == PrimaryResMap(SelectSeq(formats, PrimaryIsVideo))
      labels == SortedLabels(resMap)
  IN [kind |-> "catalog",
      title |-> IF Truthy(info.title) THEN info.title ELSE "video",
      resolutions |-> [i \in 1..Len(labels) |->
                         [label |-> labels[i],
                          itag |-> NumToStr(ValueOf(resMap, labels[i]).itag),
                          source |-> PrimarySourceTag]],
      audio |-> PrimaryBestAudio(formats),
      fallbackInfo |-> FALSE]

\* f.format_id || f.format
FallbackId(f) == IF Truthy(f.format_id) THEN f.format_id ELSE f.format

\* (f.format_id || f.format) && (f.vcodec !== 'none' || f.acodec !== 'none')
FallbackUsable(f) == Truthy(FallbackId(f)) /\ (f.vcodec # "none" \/ f.acodec # "none")

FallbackIsVideo(f) == f.vcodec # "none" /\ f.acodec # "none"

FallbackIsAudio(f) == f.vcodec = "none" /\ f.acodec # "none"

\* Math.round of a value given in tenths
RoundTenths(t) == (t + 5) \div 10

\* f.format_note || (f.height ? `${f.height}p` : (f.tbr ? `${Math.round(f.tbr)}kbps` : 'unknown'))
FallbackLabel(f) ==
  IF Truthy(f.format_note) THEN f.format_note
  ELSE IF f.height # 0 THEN NumToStr(f.height) \o "p"
  ELSE IF f.tbr # 0 THEN NumToStr(RoundTenths(f.tbr)) \o "kbps"
  ELSE "unknown"

RECURSIVE FallbackResMap(_)
\* the forEach over videoFormats: the first format of each label stays
FallbackResMap(videoFormats) ==
  IF Len(videoFormats) = 0 THEN <<>>
  ELSE LET resMap == FallbackResMap(SubSeq(videoFormats, 1, Len(videoFormats) - 1))
           f == videoFormats[Len(videoFormats)]
           q == FallbackLabel(f)
       IN IF KeyIndex(resMap, q) = 0 THEN Append(resMap, [key |-> q, val |-> f])
          ELSE resMap

PrimaryTagReused == "ytdl"

FallbackSourceTag == "yt-dlp"

\* b.abr || b.bitrate || 0
FallbackBitrate(f) == IF f.abr # 0 THEN f.abr ELSE f.bitrate

FallbackBestAudio(formats) ==
  LET audioFormats == SelectSeq(formats, FallbackIsAudio)
  IN IF Len(audioFormats) = 0 THEN NoAudio
     ELSE [itag |-> FallbackId(Unranked(SortDesc(Ranked(audioFormats, FallbackBitrate)))[1]),
           source |-> FallbackSourceTag]

\* the object returned on the yt-dlp branch
FallbackCatalog(json) ==
  LET formats == SelectSeq(json.formats, FallbackUsable)
      resMap == FallbackResMap(SelectSeq(formats, FallbackIsVideo))
      labels == SortedLabels(resMap)
  IN [kind |-> "catalog",
      title |-> IF Truthy(json.title) THEN json.title ELSE "video",
      resolutions |-> [i \in 1..Len(labels) |->
                         [label |-> labels[i],
                          itag |-> FallbackId(ValueOf(resMap, labels[i])),
                          source |-> FallbackSourceTag]],
      audio |-> FallbackBestAudio(formats),
      fallbackInfo |-> TRUE]

\* a looser test than the catch block's: any HTTP status in the message
MatchesAnyStatus(msg) ==
  \/ Includes(ToLowerCase(msg), "status code")
  \/ Includes(ToLowerCase(msg), "extractor")
  \/ Includes(ToLowerCase(msg), "signature")

\* the test that sends a primary failure to the fallback
IsRecoverable(msg) ==
  \/ Includes(msg, "Status code: 410")
  \/ Includes(ToLowerCase(msg), "extractor")
  \/ Includes(ToLowerCase(msg), "signature")

\* an inner catch that would surface the error of the fallback
RethrownInner(err, fallbackErr) == fallbackErr

\* the inner catch: `throw err`, the error of the primary backend
Rethrown(err, fallbackErr) == err

\* getFormatsInfo(url) is called: ytdl.getInfo is awaited
GetFormatsInfo ==
  /\ variant = "fallback"
  /\ Running
  /\ rpc = "idle"
  /\ \A h \in DOMAIN pc : pc[h] = "idle"
  /\ rpc' = "primary"
  /\ primaryCalls' = primaryCalls + 1
  /\ UNCHANGED <<variant, fallbackCalls, caught, result, raw, menu, handlerVars>>

\* ytdl.getInfo resolves: the catalog is built and returned
PrimaryResolves ==
  /\ rpc = "primary"
  /\ \E info \in PrimaryInfos :
       /\ raw' = info.formats
       /\ result' = PrimaryCatalog(info)
  /\ rpc' = "returned"
  /\ UNCHANGED <<variant, primaryCalls, fallbackCalls, caught, menu, handlerVars>>

\* ytdl.getInfo rejects: the catch block classifies the message
PrimaryRejects ==
  /\ rpc = "primary"
  /\ \E err \in PrimaryErrors :
       /\ caught' = err
       /\ IF IsRecoverable(err.message)
          THEN /\ rpc' = "fallback"
               /\ fallbackCalls' = fallbackCalls + 1
               /\ UNCHANGED result
          ELSE /\ rpc' = "threw"
               /\ result' = Thrown(err)
               /\ UNCHANGED fallbackCalls
  /\ UNCHANGED <<variant, primaryCalls, raw, menu, handlerVars>>

\* ytdlExec resolves: a dump without formats throws into the inner catch
FallbackResolves ==
  /\ rpc = "fallback"
  /\ \E json \in FallbackJsons :
       IF json.isNull \/ ~json.hasFormats
       THEN /\ rpc' = "threw"
            /\ result' = Thrown(Rethrown(caught, NoFormatsError))
            /\ UNCHANGED raw
       ELSE /\ rpc' = "returned"
            /\ result' = FallbackCatalog(json)
            /\ raw' = json.formats
  /\ UNCHANGED <<variant, primaryCalls, fallbackCalls, caught, menu, handlerVars>>

\* ytdlExec rejects: the inner catch rethrows
FallbackRejects ==
  /\ rpc = "fallback"
  /\ \E fallbackErr \in FallbackErrors : result' = Thrown(Rethrown(caught, fallbackErr))
  /\ rpc' = "threw"
  /\ UNCHANGED <<variant, primaryCalls, fallbackCalls, caught, raw, menu, handlerVars>>

ResolveNext ==
  \/ GetFormatsInfo
  \/ PrimaryResolves
  \/ PrimaryRejects
  \/ FallbackResolves
  \/ FallbackRejects

-----------------------------------------------------------------------------
(* The URL handlers: what the user is offered *)

\* the status message before the handler edits it
NoMenu == [text |-> "none", labels |-> <<>>, audio |-> FALSE]

\* `Failed to fetch formats: ...` / `Error: ...`
FailedMenu == [text |-> "failed", labels |-> <<>>, audio |-> FALSE]

\* 'No downloadable formats found for this video.'
NoFormatsMenu == [text |-> "noformats", labels |-> <<>>, audio |-> FALSE]

\* a keyboard with one button per label, and 'Audio only' when audio is set
ChooseMenu(labels, audio) == [text |-> "choose", labels |-> labels, audio |-> audio]

LabelsOf(resolutions) == [i \in 1..Len(resolutions) |-> resolutions[i].label]

\* handleUrl of the ytdl-core + yt-dlp variant, after getFormatsInfo settled:
\* the keyboard is built from the catalog, or the catch block reports
HandleUrlEdits ==
  /\ variant = "fallback"
  /\ rpc \in {"returned", "threw"}
  /\ menu = NoMenu
  /\ menu' = IF rpc = "returned"
             THEN ChooseMenu(LabelsOf(result.resolutions), result.audio # NoAudio)
             ELSE FailedMenu
  /\ UNCHANGED <<variant, rpc, primaryCalls, fallbackCalls, caught, result, raw,
                 handlerVars>>

UrlNext == ResolveNext \/ HandleUrlEdits

\* how many quality buttons the yt-dlp-wrap variant shows
ShownQualities == 5

\* f.vcodec !== 'none' && f.acodec !== 'none' && f.height
WrapIsVideo(f) == f.vcodec # "none" /\ f.acodec # "none" /\ f.height # 0

RECURSIVE Unique(_)
\* [...new Set(seq)]: the first occurrence of each value, in order
Unique(seq) ==
  IF Len(seq) = 0 THEN <<>>
  ELSE LET init == Unique(SubSeq(seq, 1, Len(seq) - 1))
           x == seq[Len(seq)]
       IN IF \E i \in 1..Len(init) : init[i] = x THEN init ELSE Append(init, x)

HeightOf(f) == f.height

HeightRank(h) == h

\* Array.prototype.slice(0, n)
Slice(seq, n) == SubSeq(seq, 1, IF Len(seq) < n THEN Len(seq) ELSE n)

\* getQualityOptions(info): the five largest distinct heights, as labels
GetQualityOptions(info) ==
  LET formats == IF info.hasFormats THEN info.formats ELSE <<>>
      videoFormats == SelectSeq(formats, WrapIsVideo)
      heights == Unique([i \in 1..Len(videoFormats) |-> HeightOf(videoFormats[i])])
      sorted == Unranked(SortDesc(Ranked(heights, HeightRank)))
      shown == Slice(sorted, ShownQualities)
  IN [i \in 1..Len(shown) |-> NumToStr(shown[i]) \o "p"]

\* handleYouTubeUrl: the status message is sent and getVideoInfo is awaited
WrapHandleYouTubeUrl ==
  /\ variant = "wrap"
  /\ Running
  /\ rpc = "idle"
  /\ \A h \in DOMAIN pc : pc[h] = "idle"
  /\ rpc' = "info"
  /\ UNCHANGED <<variant, primaryCalls, fallbackCalls, caught, result, raw, menu,
                 handlerVars>>

\* yt-dlp printed its dump: the qualities are computed and the message edited
WrapInfoResolves ==
  /\ variant = "wrap"
  /\ rpc = "info"
  /\ \E info \in {j \in FallbackJsons : ~j.isNull} :
       LET qualities == GetQualityOptions(info)
       IN /\ raw' = info.formats
          /\ result' = [kind |-> "qualities", qualities |-> qualities]
          /\ menu' = IF Len(qualities) = 0 THEN NoFormatsMenu
                     ELSE ChooseMenu(qualities, TRUE)
  /\ rpc' = "returned"
  /\ UNCHANGED <<variant, primaryCalls, fallbackCalls, caught, handlerVars>>

\* yt-dlp failed: getVideoInfo wraps the error and the catch block reports it
WrapInfoRejects ==
  /\ variant = "wrap"
  /\ rpc = "info"
  /\ \E e \in FallbackErrors :
       result' = Thrown([origin |-> "fallback",
                         message |-> "Failed to fetch video info: " \o e.message])
  /\ menu' = FailedMenu
  /\ rpc' = "threw"
  /\ UNCHANGED <<variant, primaryCalls, fallbackCalls, caught, raw, handlerVars>>

WrapUrlNext ==
  \/ WrapHandleYouTubeUrl
  \/ WrapInfoResolves
  \/ WrapInfoRejects

\* audioItag: null
NoItag == 0

RECURSIVE StrLess(_, _)
\* a < b of two strings of digits: by code units, position by position
StrLess(a, b) ==
  IF Len(b) = 0 THEN FALSE
  ELSE IF Len(a) = 0 THEN TRUE
  ELSE LET x == DigitVal(SubSeq(a, 1, 1))
           y == DigitVal(SubSeq(b, 1, 1))
       IN IF x # y THEN x < y
          ELSE StrLess(SubSeq(a, 2, Len(a)), SubSeq(b, 2, Len(b)))

\* a < b of two contentLength values: undefined converts to NaN and
\* compares false, two strings compare as strings
ContentLengthLess(a, b) == a # None /\ b # None /\ StrLess(a, b)

RECURSIVE YtdlResMap(_)
\* the forEach over videoFormats of the ytdl-core-only variant
YtdlResMap(videoFormats) ==
  IF Len(videoFormats) = 0 THEN <<>>
  ELSE LET resMap == YtdlResMap(SubSeq(videoFormats, 1, Len(videoFormats) - 1))
           f == videoFormats[Len(videoFormats)]
           q == PrimaryLabel(f)
           i == KeyIndex(resMap, q)
       IN IF i = 0 THEN Append(resMap, [key |-> q, val |-> f])
          ELSE IF ContentLengthLess(resMap[i].val.contentLength, f.contentLength)
          THEN [resMap EXCEPT ![i] = [key |-> q, val |-> f]]
          ELSE resMap

\* bestAudio ? bestAudio.itag : null
YtdlBestAudio(formats) ==
  LET audioFormats == SelectSeq(formats, PrimaryIsAudio)
  IN IF Len(audioFormats) = 0 THEN NoItag
     ELSE Unranked(SortDesc(Ranked(audioFormats, PrimaryBitrate)))[1].itag

\* the object getFormatsInfo of the ytdl-core-only variant returns
YtdlCatalog(info) ==
  LET formats == SelectSeq(info.formats, PrimaryUsable)
      resMap == YtdlResMap(SelectSeq(formats, PrimaryIsVideo))
      labels == SortedLabels(resMap)
  IN [kind |-> "catalog",
      title |-> IF Truthy(info.title) THEN info.title ELSE "video",
      resolutions |-> [i \in 1..Len(labels) |->
                         [label |-> labels[i], itag |-> ValueOf(resMap, labels[i]).itag]],
      audioItag |-> YtdlBestAudio(formats)]

\* handleUrl of the ytdl-core-only variant: getFormatsInfo awaits ytdl.getInfo
YtdlGetFormatsInfo ==
  /\ variant = "ytdlonly"
  /\ Running
  /\ rpc = "idle"
  /\ rpc' = "ytinfo"
  /\ primaryCalls' = primaryCalls + 1
  /\ UNCHANGED <<variant, fallbackCalls, caught, result, raw, menu, handlerVars>>

\* ytdl.getInfo resolves: the catalog is returned to handleUrl
YtdlResolves ==
  /\ variant = "ytdlonly"
  /\ rpc = "ytinfo"
  /\ \E info \in PrimaryInfos :
       /\ raw' = info.formats
       /\ result' = YtdlCatalog(info)
  /\ rpc' = "returned"
  /\ UNCHANGED <<variant, primaryCalls, fallbackCalls, caught, menu, handlerVars>>

\* ytdl.getInfo rejects: nothing catches before handleUrl
YtdlRejects ==
  /\ variant = "ytdlonly"
  /\ rpc = "ytinfo"
  /\ \E err \in PrimaryErrors :
       /\ caught' = err
       /\ result' = Thrown(err)
  /\ rpc' = "threw"
  /\ UNCHANGED <<variant, primaryCalls, fallbackCalls, raw, menu, handlerVars>>

\* handleUrl of the ytdl-core-only variant edits its status message
YtdlHandleUrlEdits ==
  /\ variant = "ytdlonly"
  /\ rpc \in {"returned", "threw"}
  /\ menu = NoMenu
  /\ menu' = IF rpc = "returned"
             THEN ChooseMenu(LabelsOf(result.resolutions), result.audioItag # NoItag)
             ELSE FailedMenu
  /\ UNCHANGED <<variant, rpc, primaryCalls, fallbackCalls, caught, result, raw,
                 handlerVars>>

YtdlNext ==
  \/ YtdlGetFormatsInfo
  \/ YtdlResolves
  \/ YtdlRejects
  \/ YtdlHandleUrlEdits

-----------------------------------------------------------------------------
(* Callback handlers, temp files and the delivery sink *)

\* the callback queries of one run: two triggers, in every interleaving
Handlers == {1, 2}

Users == {1, 2}

NoReq == [user |-> 0, data |-> ""]

NoLoc ==
  [kind |-> None, quality |-> None, url |-> None, key |-> None,
   path |-> None, rawPath |-> None, fileSize |-> NaN, err |-> None,
   fetched |-> FALSE, outcome |-> None, writeOpen |-> FALSE,
   source |-> None, sizeSignal |-> None, upstream |-> "none", ffmpegErr |-> FALSE,
   backend |-> None, uploads |-> 0, uploadErr |-> FALSE, filename |-> None]

\* sizes a finished download or conversion can have
FileSizes == {0, 50 * 1024 * 1024, 50 * 1024 * 1024 + 1}

NoFiles == [q \in {} |-> [size |-> 0, mtime |-> 0, creator |-> 0]]

Exists(p) == p \in DOMAIN files

\* the modification time a write leaves (read only by the wrap variant's sweep)
Mtime == IF variant = "wrap" THEN now ELSE 0

\* a file is created or truncated and written by handler h
WriteFile(fs, p, h, size) ==
  [q \in DOMAIN fs \cup {p} |->
     IF q = p THEN [size |-> size, mtime |-> Mtime, creator |-> h] ELSE fs[q]]

\* fs.unlinkSync on the paths of P that exist
Unlink(fs, P) == [q \in DOMAIN fs \ P |-> fs[q]]

Upd(f, h, v) == [f EXCEPT ![h] = v]

\* the locals once the write stream has emitted 'finish' or 'error'
Closed(l) == [l EXCEPT !.writeOpen = FALSE]

\* one step of handler h: its position, its locals, the temp directory and
\* what it handed to the sink
Step(h, p, l, fs, sk) ==
  /\ pc' = Upd(pc, h, p)
  /\ loc' = Upd(loc, h, l)
  /\ files' = fs
  /\ sink' = Upd(sink, h, sk)

\* the temp paths handler h computed
PathsOf(h) == {loc[h].path, loc[h].rawPath} \ {None}

\* the locals once the sink's upload operation has been invoked
Uploading(l) == [l EXCEPT !.uploads = @ + 1]

\* what the sink receives when it is handed the file at path p
Handed(h, p) == Append(sink[h], IF Exists(p) THEN files[p].size ELSE 0)

-----------------------------------------------------------------------------
(* The variant with activeDownloads: src/unnamed/part_002, lines 1-714 *)

ActiveUrls == {"youtu.be/a_1"}

\* callback_data of the buttons handleYouTubeLink builds
ActiveButtons ==
  {"video_" \o q \o "_" \o u : q \in {"720p"}, u \in ActiveUrls}
    \cup {"audio_" \o u : u \in ActiveUrls}

MAX_FILE_SIZE == 50 * 1024 * 1024

\* data.startsWith('video_') ... else if data.startsWith('audio_')
ParseData(data) ==
  IF StartsWith(data, "video_")
  THEN LET parts == Split(data, "_")
       IN [kind |-> "video", quality |-> parts[2],
           url |-> Join(SubSeq(parts, 3, Len(parts)), "_")]
  ELSE IF StartsWith(data, "audio_")
  THEN [kind |-> "audio", quality |-> None, url |-> SubSeq(data, 7, Len(data))]
  ELSE [kind |-> None, quality |-> None, url |-> None]

\* `${userId}_${url}_${quality}` and `${userId}_${url}_audio`
DownloadKey(user, url, kind, quality) ==
  NumToStr(user) \o "_" \o url \o "_" \o (IF kind = "video" THEN quality ELSE "audio")

\* a guard that never finds the key
NeverActive(key) == FALSE

\* activeDownloads.has(downloadKey)
AlreadyActive(key) == key \in activeDownloads

\* getFileSize: stats.size, 0 when statSync throws
GetFileSize(fs, p) == IF p \in DOMAIN fs THEN fs[p].size ELSE 0

\* a ceiling test that rejects the ceiling itself
AtLeastCeiling(fileSize) == fileSize >= MAX_FILE_SIZE

\* fileSize > MAX_FILE_SIZE
TooLarge(fileSize) == fileSize > MAX_FILE_SIZE

\* `${timestamp}_video.mp4`, `${timestamp}_raw.webm`, `${timestamp}_audio.mp3`
TempPath(timestamp, suffix) == NumToStr(timestamp) \o "_" \o suffix

\* the finally block: cleanup(...paths); activeDownloads.delete(downloadKey)
ActiveFinally(h) ==
  /\ Step(h, "done", [loc[h] EXCEPT !.outcome = "returned"],
          Unlink(files, PathsOf(h)), sink[h])
  /\ activeDownloads' = activeDownloads \ {loc[h].key}

\* a catch block that would rethrow to the callback_query handler
ActiveCatchRethrows(h, err, fs) ==
  /\ Step(h, "cberr", [loc[h] EXCEPT !.err = err, !.outcome = "threw"], fs, sink[h])
  /\ UNCHANGED activeDownloads

\* a throw inside the try block: the catch block builds errorMsg and awaits
\* editMessageText(errorMsg)
ActiveCatch(h, err, fs) ==
  /\ Step(h, "errmsg", [loc[h] EXCEPT !.err = err], fs, sink[h])
  /\ UNCHANGED activeDownloads

\* the next await inside the try block
ActiveAwait(h, p, l, fs, sk) ==
  /\ Step(h, p, l, fs, sk)
  /\ UNCHANGED activeDownloads

\* a catch block that would call sendVideo / sendAudio a second time
ActiveUploadRetried(h) ==
  IF loc[h].uploads < 2
  THEN /\ Step(h, "upload", Uploading(loc[h]), files, Handed(h, loc[h].path))
       /\ UNCHANGED activeDownloads
  ELSE ActiveCatch(h, "generic", files)

\* sendVideo / sendAudio rejects: the catch block reports, nothing is retried
ActiveUploadFailed(h) ==
  /\ Step(h, "errmsg", [loc[h] EXCEPT !.err = "generic", !.uploadErr = TRUE], files, sink[h])
  /\ UNCHANGED activeDownloads

\* bot.on('callback_query'): a button is pressed, answerCallbackQuery is awaited
ActiveCallbackQueryOf(h, buttons) ==
  /\ variant = "active"
  /\ Running
  /\ pc[h] = "idle"
  /\ \A g \in Handlers : g < h => pc[g] # "idle"
  /\ \E u \in Users, d \in buttons : req' = Upd(req, h, [user |-> u, data |-> d])
  /\ pc' = Upd(pc, h, "answer")
  /\ UNCHANGED <<variant, resolveVars, loc, activeDownloads, files, now, sink>>

\* a button of a keyboard handleYouTubeLink built is pressed
ActiveCallbackQuery(h) == ActiveCallbackQueryOf(h, ActiveButtons)

\* a video longer than an hour
LongUrls == {"youtu.be/b_2"}

\* videoDetails.durationInSec of the video behind a URL
DurationOf(url) == IF url \in LongUrls THEN 3601 ELSE 3600

\* callback_data naming a video longer than an hour, in the format of the
\* buttons: the handler receives whatever callback_data the query carries
LongButtons == {"video_" \o q \o "_" \o u : q \in {"720p"}, u \in LongUrls}

\* a callback_query naming a video longer than an hour arrives
ActiveLongCallbackQuery(h) == ActiveCallbackQueryOf(h, LongButtons)

\* answerCallbackQuery settles; downloadVideo / downloadAudio runs up to its
\* first await: the activeDownloads check and add
ActiveAnswered(h) ==
  /\ variant = "active"
  /\ pc[h] = "answer"
  /\ \E ok \in BOOLEAN :
       IF ~ok
       THEN /\ Step(h, "done", [loc[h] EXCEPT !.outcome = "unhandled"], files, sink[h])
            /\ UNCHANGED activeDownloads
       ELSE LET d == ParseData(req[h].data)
                key == DownloadKey(req[h].user, d.url, d.kind, d.quality)
                l == [loc[h] EXCEPT !.kind = d.kind, !.quality = d.quality,
                                    !.url = d.url, !.key = key]
            IN IF AlreadyActive(key)
               THEN /\ Step(h, "dupmsg", l, files, sink[h])
                    /\ UNCHANGED activeDownloads
               ELSE /\ Step(h, "status", l, files, sink[h])
                    /\ activeDownloads' = activeDownloads \cup {key}
  /\ UNCHANGED <<variant, resolveVars, req, now>>

\* sendMessage('Download already in progress...') settles: return, or the
\* rejection reaches the handler's catch
ActiveDupMsg(h) ==
  /\ variant = "active"
  /\ pc[h] = "dupmsg"
  /\ \E ok \in BOOLEAN :
       IF ok
       THEN Step(h, "done", [loc[h] EXCEPT !.outcome = "blocked"], files, sink[h])
       ELSE Step(h, "cberr", [loc[h] EXCEPT !.outcome = "threw"], files, sink[h])
  /\ UNCHANGED <<variant, resolveVars, req, activeDownloads, now>>

\* the status sendMessage settles (before the try block): the temp paths are
\* named after Date.now() and the try block is entered
ActiveStatus(h) ==
  /\ variant = "active"
  /\ pc[h] = "status"
  /\ \E ok \in BOOLEAN :
       IF ~ok
       THEN Step(h, "cberr", [loc[h] EXCEPT !.outcome = "threw"], files, sink[h])
       ELSE IF loc[h].kind = "video"
       THEN Step(h, "edit1", [loc[h] EXCEPT !.path = TempPath(now, "video.mp4")],
                 files, sink[h])
       ELSE Step(h, "stream", [loc[h] EXCEPT !.rawPath = TempPath(now, "raw.webm"),
                                             !.path = TempPath(now, "audio.mp3"),
                                             !.fetched = TRUE],
                 files, sink[h])
  /\ UNCHANGED <<variant, resolveVars, req, activeDownloads, now>>

\* downloadVideo: editMessageText('Downloading ...') settles, play.stream is called
ActiveEdit1(h) ==
  /\ variant = "active"
  /\ pc[h] = "edit1"
  /\ \E ok \in BOOLEAN :
       IF ok
       THEN ActiveAwait(h, "stream", [loc[h] EXCEPT !.fetched = TRUE], files, sink[h])
       ELSE ActiveCatch(h, "generic", files)
  /\ UNCHANGED <<variant, resolveVars, req, now>>

\* play.stream settles: createWriteStream opens the temp file, the stream is
\* piped into it and the finish / error / timeout promise is awaited
ActiveStream(h) ==
  /\ variant = "active"
  /\ pc[h] = "stream"
  /\ \E ok \in BOOLEAN :
       IF ok
       THEN ActiveAwait(h, "writing", [loc[h] EXCEPT !.writeOpen = TRUE],
                        WriteFile(files, IF loc[h].kind = "video" THEN loc[h].path
                                         ELSE loc[h].rawPath, h, 0),
                        sink[h])
       ELSE ActiveCatch(h, "generic", files)
  /\ UNCHANGED <<variant, resolveVars, req, now>>

\* size checks without `if (fileSize === 0) throw`
ActiveSizeCheckNoEmptyTest(h, fs) ==
  LET fileSize == GetFileSize(fs, loc[h].path)
  IN IF TooLarge(fileSize)
     THEN /\ Step(h, "errmsg", [Closed(loc[h]) EXCEPT !.err = "too_large",
                                                      !.fileSize = fileSize],
                  fs, sink[h])
          /\ UNCHANGED activeDownloads
     ELSE ActiveAwait(h, "edit2", [Closed(loc[h]) EXCEPT !.fileSize = fileSize],
                      fs, sink[h])

\* the size checks after the download (video) or the conversion (audio), then
\* editMessageText('Uploading to Telegram...')
ActiveSizeCheck(h, fs) ==
  LET fileSize == GetFileSize(fs, loc[h].path)
  IN IF fileSize = 0
     THEN /\ Step(h, "errmsg", [Closed(loc[h]) EXCEPT !.err = "generic",
                                                      !.fileSize = fileSize],
                  fs, sink[h])
          /\ UNCHANGED activeDownloads
     ELSE IF TooLarge(fileSize)
     THEN /\ Step(h, "errmsg", [Closed(loc[h]) EXCEPT !.err = "too_large",
                                                      !.fileSize = fileSize],
                  fs, sink[h])
          /\ UNCHANGED activeDownloads
     ELSE ActiveAwait(h, "edit2", [Closed(loc[h]) EXCEPT !.fileSize = fileSize],
                      fs, sink[h])

\* the write promise settles: 'finish' (the write stream has ended and closed
\* its descriptor), 'error' (the write stream has destroyed itself), or the
\* DOWNLOAD_TIMEOUT timer, which rejects the promise and touches neither the
\* backend stream nor the write stream
ActiveWriting(h) ==
  /\ variant = "active"
  /\ pc[h] = "writing"
  /\ \/ \E size \in FileSizes :
          LET p == IF loc[h].kind = "video" THEN loc[h].path ELSE loc[h].rawPath
              fs == IF p \in DOMAIN files
                    THEN [files EXCEPT ![p] = [@ EXCEPT !.size = size, !.mtime = Mtime]]
                    ELSE files
          IN IF loc[h].kind = "video"
             THEN ActiveSizeCheck(h, fs)
             ELSE ActiveAwait(h, "edit_conv", Closed(loc[h]), fs, sink[h])
     \/ /\ Step(h, "errmsg", [Closed(loc[h]) EXCEPT !.err = "generic"], files, sink[h])
        /\ UNCHANGED activeDownloads
     \/ ActiveCatch(h, "timeout", files)
  /\ UNCHANGED <<variant, resolveVars, req, now>>

\* downloadAudio: editMessageText('Converting to MP3...') settles, ffmpeg is started
ActiveEditConv(h) ==
  /\ variant = "active"
  /\ pc[h] = "edit_conv"
  /\ \E ok \in BOOLEAN :
       IF ok THEN ActiveAwait(h, "ffmpeg", loc[h], files, sink[h])
       ELSE ActiveCatch(h, "generic", files)
  /\ UNCHANGED <<variant, resolveVars, req, now>>

\* downloadAudio: ffmpeg ends (tempAudioPath is written) or fails
ActiveFfmpeg(h) ==
  /\ variant = "active"
  /\ pc[h] = "ffmpeg"
  /\ \/ \E size \in FileSizes :
          ActiveSizeCheck(h, WriteFile(files, loc[h].path, h, size))
     \/ ActiveCatch(h, "generic", files)
     \/ ActiveCatch(h, "generic", WriteFile(files, loc[h].path, h, 0))
  /\ UNCHANGED <<variant, resolveVars, req, now>>

\* editMessageText('Uploading ...') settles, play.video_info is awaited
ActiveEdit2(h) ==
  /\ variant = "active"
  /\ pc[h] = "edit2"
  /\ \E ok \in BOOLEAN :
       IF ok THEN ActiveAwait(h, "info", loc[h], files, sink[h])
       ELSE ActiveCatch(h, "generic", files)
  /\ UNCHANGED <<variant, resolveVars, req, now>>

\* play.video_info settles: sendVideo / sendAudio is called with the temp path
ActiveInfo(h) ==
  /\ variant = "active"
  /\ pc[h] = "info"
  /\ \E ok \in BOOLEAN :
       IF ok THEN ActiveAwait(h, "upload", Uploading(loc[h]), files, Handed(h, loc[h].path))
       ELSE ActiveCatch(h, "generic", files)
  /\ UNCHANGED <<variant, resolveVars, req, now>>

\* sendVideo / sendAudio settles: deleteMessage(...).catch(() => {}) is awaited
ActiveUpload(h) ==
  /\ variant = "active"
  /\ pc[h] = "upload"
  /\ \E ok \in BOOLEAN :
       IF ok THEN ActiveAwait(h, "delmsg", loc[h], files, sink[h])
       ELSE ActiveUploadFailed(h)
  /\ UNCHANGED <<variant, resolveVars, req, now>>

\* deleteMessage settles either way (its rejection is swallowed): finally
ActiveDelMsg(h) ==
  /\ variant = "active"
  /\ pc[h] = "delmsg"
  /\ ActiveFinally(h)
  /\ UNCHANGED <<variant, resolveVars, req, now>>

\* editMessageText(errorMsg).catch(() => {}) settles either way: finally
ActiveErrMsg(h) ==
  /\ variant = "active"
  /\ pc[h] = "errmsg"
  /\ ActiveFinally(h)
  /\ UNCHANGED <<variant, resolveVars, req, now>>

\* the ffmpeg promise or the sendVideo / sendAudio promise never settles: no
\* timer races with either, so the handler stays suspended at that await
\* (the write promise is raced by the DOWNLOAD_TIMEOUT timer and always settles)
ActiveNeverSettles(h) ==
  /\ variant = "active"
  /\ pc[h] \in {"ffmpeg", "upload"}
  /\ pc' = Upd(pc, h, "hung")
  /\ UNCHANGED <<variant, resolveVars, req, loc, activeDownloads, files, now, sink>>

\* the handler's catch: sendMessage('An error occurred...') settles
ActiveCallbackCatch(h) ==
  /\ variant = "active"
  /\ pc[h] = "cberr"
  /\ pc' = Upd(pc, h, "done")
  /\ UNCHANGED <<variant, resolveVars, req, loc, activeDownloads, files, now, sink>>

\* Date.now() advances by a millisecond (before a handler reads it)
ClockTick ==
  /\ variant \in {"active", "playdl"}
  /\ now < MaxTicks
  /\ \E h \in Handlers : pc[h] = "status"
  /\ now' = now + 1
  /\ UNCHANGED <<variant, resolveVars, pc, req, loc, activeDownloads, files, sink>>

ActiveNext ==
  \E h \in Handlers :
    \/ ActiveCallbackQuery(h)
    \/ ActiveAnswered(h)
    \/ ActiveDupMsg(h)
    \/ ActiveStatus(h)
    \/ ActiveEdit1(h)
    \/ ActiveStream(h)
    \/ ActiveWriting(h)
    \/ ActiveEditConv(h)
    \/ ActiveFfmpeg(h)
    \/ ActiveEdit2(h)
    \/ ActiveInfo(h)
    \/ ActiveUpload(h)
    \/ ActiveDelMsg(h)
    \/ ActiveErrMsg(h)
    \/ ActiveNeverSettles(h)
    \/ ActiveCallbackCatch(h)

-----------------------------------------------------------------------------
(* handleYouTubeLink of the activeDownloads variant: src/unnamed/part_002,
   lines 287-413 *)

\* `${userId}_${url}`, the key handleYouTubeLink looks up in activeDownloads
LinkKey(user, url) == NumToStr(user) \o "_" \o url

\* 'You already have an active download for this video. Please wait...'
RefusedMenu == [text |-> "refused", labels |-> <<>>, audio |-> FALSE]

\* 'Fetching video info...'
FetchingMenu == [text |-> "fetching", labels |-> <<>>, audio |-> FALSE]

\* 'Video is too long (max 1 hour). Please try a shorter video.'
TooLongMenu == [text |-> "toolong", labels |-> <<>>, audio |-> FALSE]

\* videoDetails.durationInSec > 3600
MAX_DURATION == 3600

\* the qualityOptions handleYouTubeLink looks for, in its order
QualityOptions == <<"1080p", "720p", "480p", "360p">>

\* what play.video_info may resolve with: the duration and the qualityLabel
\* of each format
LinkInfos ==
  { [durationInSec |-> MAX_DURATION, format |-> <<"360p", "720p60">>],
    [durationInSec |-> MAX_DURATION + 1, format |-> <<"720p">>] }

\* the labels of qualityOptions some format's qualityLabel includes
AvailableQualities(format) ==
  LET Found(i) == \E j \in 1..Len(format) : Includes(format[j], QualityOptions[i])
      F[i \in 0..Len(QualityOptions)] ==
        IF i = 0 THEN <<>>
        ELSE IF Found(i) THEN Append(F[i - 1], QualityOptions[i]) ELSE F[i - 1]
  IN F[Len(QualityOptions)]

\* a link handler that would add its key to activeDownloads
ActiveHandleYouTubeLinkAdding(urls) ==
  /\ variant = "active"
  /\ Running
  /\ rpc = "idle"
  /\ \E u \in Users, url \in urls :
       /\ result' = [kind |-> "link", user |-> u, url |-> url]
       /\ activeDownloads' = activeDownloads \cup {LinkKey(u, url)}
       /\ IF AlreadyActive(LinkKey(u, url))
          THEN /\ menu' = RefusedMenu
               /\ rpc' = "returned"
               /\ UNCHANGED primaryCalls
          ELSE /\ menu' = FetchingMenu
               /\ rpc' = "linkinfo"
               /\ primaryCalls' = primaryCalls + 1
  /\ UNCHANGED <<variant, boot, fallbackCalls, caught, raw, pc, req, loc, files, now, sink>>

\* a message with a YouTube link or /download <url> arrives: the key is looked
\* up, then 'Fetching video info...' is sent and play.video_info is awaited
ActiveHandleYouTubeLinkOf(urls) ==
  /\ variant = "active"
  /\ Running
  /\ rpc = "idle"
  /\ \E u \in Users, url \in urls :
       /\ result' = [kind |-> "link", user |-> u, url |-> url]
       /\ IF AlreadyActive(LinkKey(u, url))
          THEN /\ menu' = RefusedMenu
               /\ rpc' = "returned"
               /\ UNCHANGED primaryCalls
          ELSE /\ menu' = FetchingMenu
               /\ rpc' = "linkinfo"
               /\ primaryCalls' = primaryCalls + 1
  /\ UNCHANGED <<variant, boot, fallbackCalls, caught, raw,
                 pc, req, loc, activeDownloads, files, now, sink>>

\* a link to a video of at most an hour arrives
ActiveHandleYouTubeLink == ActiveHandleYouTubeLinkOf(ActiveUrls)

\* a link to a video longer than an hour arrives
ActiveHandleLongLink == ActiveHandleYouTubeLinkOf(LongUrls)

\* play.video_info resolves: too long, or the keyboard of the qualities found
\* and the audio button replaces the status message
ActiveLinkResolves ==
  /\ rpc = "linkinfo"
  /\ \E info \in {i \in LinkInfos : i.durationInSec = DurationOf(result.url)} :
       /\ raw' = info.format
       /\ menu' = IF info.durationInSec > MAX_DURATION THEN TooLongMenu
                  ELSE ChooseMenu(AvailableQualities(info.format), TRUE)
  /\ rpc' = "returned"
  /\ UNCHANGED <<variant, boot, primaryCalls, fallbackCalls, caught, result,
                 pc, req, loc, activeDownloads, files, now, sink>>

\* play.video_info rejects: the catch block edits 'Failed to fetch video info'
ActiveLinkRejects ==
  /\ rpc = "linkinfo"
  /\ menu' = FailedMenu
  /\ rpc' = "returned"
  /\ UNCHANGED <<variant, boot, primaryCalls, fallbackCalls, caught, result, raw,
                 pc, req, loc, activeDownloads, files, now, sink>>

ActiveLinkNext ==
  \/ ActiveHandleYouTubeLink
  \/ ActiveLinkResolves
  \/ ActiveLinkRejects

\* requests that name a video longer than an hour
ActiveLongNext ==
  \/ ActiveHandleLongLink
  \/ \E h \in Handlers : ActiveLongCallbackQuery(h)

-----------------------------------------------------------------------------
(* The play-dl variant without a download guard: src/index.js, lines 1-270 *)

\* callback_data of the buttons handleYouTubeLink builds
PlayButtons ==
  {"video_" \o q \o "_" \o u : q \in {"720p"}, u \in ActiveUrls}
    \cup {"audio_" \o u : u \in ActiveUrls}

\* cleanup(path) for each temp path of the handler: unlink when it exists
PlayCleanup(h) == Unlink(files, PathsOf(h))

\* a throw inside the try block: the catch block awaits editMessageText(...)
PlayCatch(h, fs) == Step(h, "errmsg", [loc[h] EXCEPT !.err = "generic"], fs, sink[h])

\* bot.on('callback_query'): a button is pressed, answerCallbackQuery is awaited
PlayCallbackQuery(h) ==
  /\ variant = "playdl"
  /\ Running
  /\ pc[h] = "idle"
  /\ \A g \in Handlers : g < h => pc[g] # "idle"
  /\ \E d \in PlayButtons : req' = Upd(req, h, [user |-> 1, data |-> d])
  /\ pc' = Upd(pc, h, "answer")
  /\ UNCHANGED <<variant, resolveVars, loc, activeDownloads, files, now, sink>>

\* answerCallbackQuery settles (no try around it): downloadVideo /
\* downloadAudio is called and awaits the status sendMessage
PlayAnswered(h) ==
  /\ variant = "playdl"
  /\ pc[h] = "answer"
  /\ \E ok \in BOOLEAN :
       IF ~ok
       THEN Step(h, "done", [loc[h] EXCEPT !.outcome = "unhandled"], files, sink[h])
       ELSE LET d == ParseData(req[h].data)
            IN Step(h, "status", [loc[h] EXCEPT !.kind = d.kind, !.quality = d.quality,
                                                !.url = d.url], files, sink[h])
  /\ UNCHANGED <<variant, resolveVars, req, activeDownloads, now>>

\* the status sendMessage settles (before the try block): the temp paths are
\* named after Date.now() and play.stream is awaited
PlayStatus(h) ==
  /\ variant = "playdl"
  /\ pc[h] = "status"
  /\ \E ok \in BOOLEAN :
       IF ~ok
       THEN Step(h, "done", [loc[h] EXCEPT !.outcome = "threw"], files, sink[h])
       ELSE IF loc[h].kind = "video"
       THEN Step(h, "stream", [loc[h] EXCEPT !.path = TempPath(now, "video.mp4"),
                                             !.fetched = TRUE], files, sink[h])
       ELSE Step(h, "stream", [loc[h] EXCEPT !.path = TempPath(now, "audio.mp3"),
                                             !.rawPath = TempPath(now, "raw.webm"),
                                             !.fetched = TRUE], files, sink[h])
  /\ UNCHANGED <<variant, resolveVars, req, activeDownloads, now>>

\* play.stream settles: createWriteStream opens the temp file, the stream is
\* piped into it and the finish / error promise is awaited
PlayStream(h) ==
  /\ variant = "playdl"
  /\ pc[h] = "stream"
  /\ \E ok \in BOOLEAN :
       IF ok
       THEN Step(h, "writing", [loc[h] EXCEPT !.writeOpen = TRUE],
                 WriteFile(files, IF loc[h].kind = "video" THEN loc[h].path
                                  ELSE loc[h].rawPath, h, 0), sink[h])
       ELSE PlayCatch(h, files)
  /\ UNCHANGED <<variant, resolveVars, req, activeDownloads, now>>

\* the write promise settles: finish (then editMessageText is awaited) or error
PlayWriting(h) ==
  /\ variant = "playdl"
  /\ pc[h] = "writing"
  /\ \/ \E size \in FileSizes :
          LET p == IF loc[h].kind = "video" THEN loc[h].path ELSE loc[h].rawPath
              fs == IF p \in DOMAIN files
                    THEN [files EXCEPT ![p] = [@ EXCEPT !.size = size, !.mtime = Mtime]]
                    ELSE files
          IN Step(h, IF loc[h].kind = "video" THEN "edit2" ELSE "edit_conv",
                  Closed(loc[h]), fs, sink[h])
     \/ Step(h, "errmsg", [Closed(loc[h]) EXCEPT !.err = "generic"], files, sink[h])
  /\ UNCHANGED <<variant, resolveVars, req, activeDownloads, now>>

\* downloadAudio: editMessageText('Converting to MP3...') settles, ffmpeg is started
PlayEditConv(h) ==
  /\ variant = "playdl"
  /\ pc[h] = "edit_conv"
  /\ \E ok \in BOOLEAN :
       IF ok THEN Step(h, "ffmpeg", loc[h], files, sink[h]) ELSE PlayCatch(h, files)
  /\ UNCHANGED <<variant, resolveVars, req, activeDownloads, now>>

\* downloadAudio: ffmpeg ends (tempAudioPath is written) or fails
PlayFfmpeg(h) ==
  /\ variant = "playdl"
  /\ pc[h] = "ffmpeg"
  /\ \/ \E size \in FileSizes :
          Step(h, "edit2", loc[h], WriteFile(files, loc[h].path, h, size), sink[h])
     \/ PlayCatch(h, files)
     \/ PlayCatch(h, WriteFile(files, loc[h].path, h, 0))
  /\ UNCHANGED <<variant, resolveVars, req, activeDownloads, now>>

\* editMessageText('Uploading to Telegram...') settles: downloadVideo calls
\* sendVideo with the temp path, downloadAudio awaits play.video_info
PlayEdit2(h) ==
  /\ variant = "playdl"
  /\ pc[h] = "edit2"
  /\ \E ok \in BOOLEAN :
       IF ~ok THEN PlayCatch(h, files)
       ELSE IF loc[h].kind = "video"
       THEN Step(h, "upload", Uploading(loc[h]), files, Handed(h, loc[h].path))
       ELSE Step(h, "info", loc[h], files, sink[h])
  /\ UNCHANGED <<variant, resolveVars, req, activeDownloads, now>>

\* downloadAudio: play.video_info settles, sendAudio is called with the temp path
PlayInfo(h) ==
  /\ variant = "playdl"
  /\ pc[h] = "info"
  /\ \E ok \in BOOLEAN :
       IF ok THEN Step(h, "upload", Uploading(loc[h]), files, Handed(h, loc[h].path))
       ELSE PlayCatch(h, files)
  /\ UNCHANGED <<variant, resolveVars, req, activeDownloads, now>>

\* sendVideo / sendAudio settles: deleteMessage is awaited
PlayUpload(h) ==
  /\ variant = "playdl"
  /\ pc[h] = "upload"
  /\ \E ok \in BOOLEAN :
       IF ok THEN Step(h, "delmsg", loc[h], files, sink[h])
       ELSE Step(h, "errmsg", [loc[h] EXCEPT !.err = "generic", !.uploadErr = TRUE],
                 files, sink[h])
  /\ UNCHANGED <<variant, resolveVars, req, activeDownloads, now>>

\* deleteMessage settles: cleanup of the temp paths and return, or the catch block
PlayDelMsg(h) ==
  /\ variant = "playdl"
  /\ pc[h] = "delmsg"
  /\ \E ok \in BOOLEAN :
       IF ok
       THEN Step(h, "done", [loc[h] EXCEPT !.outcome = "returned"], PlayCleanup(h), sink[h])
       ELSE PlayCatch(h, files)
  /\ UNCHANGED <<variant, resolveVars, req, activeDownloads, now>>

\* the catch block's editMessageText settles: cleanup follows it, so a
\* rejection leaves the catch block before cleanup runs
PlayErrMsg(h) ==
  /\ variant = "playdl"
  /\ pc[h] = "errmsg"
  /\ \E ok \in BOOLEAN :
       IF ok
       THEN Step(h, "done", [loc[h] EXCEPT !.outcome = "returned"], PlayCleanup(h), sink[h])
       ELSE Step(h, "done", [loc[h] EXCEPT !.outcome = "threw"], files, sink[h])
  /\ UNCHANGED <<variant, resolveVars, req, activeDownloads, now>>

\* the write promise, the ffmpeg promise or the sendVideo / sendAudio promise
\* never settles: nothing else resumes the handler
PlayNeverSettles(h) ==
  /\ variant = "playdl"
  /\ pc[h] \in {"writing", "ffmpeg", "upload"}
  /\ pc' = Upd(pc, h, "hung")
  /\ UNCHANGED <<variant, resolveVars, req, loc, activeDownloads, files, now, sink>>

PlayNext ==
  \E h \in Handlers :
    \/ PlayCallbackQuery(h)
    \/ PlayAnswered(h)
    \/ PlayStatus(h)
    \/ PlayStream(h)
    \/ PlayWriting(h)
    \/ PlayEditConv(h)
    \/ PlayFfmpeg(h)
    \/ PlayEdit2(h)
    \/ PlayInfo(h)
    \/ PlayUpload(h)
    \/ PlayDelMsg(h)
    \/ PlayErrMsg(h)
    \/ PlayNeverSettles(h)

-----------------------------------------------------------------------------
(* The yt-dlp-wrap variant: src/unnamed/part_001 *)

\* callback_data of the buttons handleYouTubeUrl builds: `video_${quality}_${info.id}`
\* and `audio_${info.id}`, for video ids with and without an underscore
WrapButtons == {"video_720p_abc", "audio_abc", "audio_a_c"}

\* `video_${quality}_${info.id}`
WrapVideoData(quality, id) == "video_" \o quality \o "_" \o id

\* `audio_${info.id}`
WrapAudioData(id) == "audio_" \o id

SWEEP_INTERVAL == 5 * 60 * 1000

SWEEP_AGE == 10 * 60 * 1000

IdChars == "abcdefghijklmnopqrstuvwxyzABCDEFGHIJKLMNOPQRSTUVWXYZ0123456789_-"

RECURSIVE Sanitize(_)
\* videoId.replace(/[^a-zA-Z0-9_-]/g, '')
Sanitize(s) ==
  IF Len(s) = 0 THEN ""
  ELSE (IF Includes(IdChars, SubSeq(s, 1, 1)) THEN SubSeq(s, 1, 1) ELSE "") \o Sanitize(Tail(s))

\* const [type, quality, videoId] = data.split('_')
WrapParse(data) ==
  LET parts == Split(data, "_")
      At(i) == IF i <= Len(parts) THEN parts[i] ELSE None
  IN [kind |-> At(1), quality |-> At(2), videoId |-> At(3)]

\* `${sanitizedId}_${quality}.mp4` and `${sanitizedId}.mp3`
WrapOutputPath(kind, videoId, quality) ==
  IF kind = "video" THEN Sanitize(videoId) \o "_" \o quality \o ".mp4"
  ELSE Sanitize(videoId) \o ".mp3"

\* fileSizeMB > 50, with fileSizeMB = stats.size / (1024 * 1024)
WrapTooLarge(size) == size > 50 * (1024 * 1024)

\* the catch block of downloadVideo / downloadAudio: unlink outputPath when it
\* exists, rethrow; the handler's catch then awaits editMessageText('Download failed')
WrapCatch(h, fs) ==
  Step(h, "cberr", [loc[h] EXCEPT !.outcome = "threw"], Unlink(fs, PathsOf(h)), sink[h])

\* bot.on('callback_query'): a button is pressed, answerCbQuery is awaited
WrapCallbackQuery(h) ==
  /\ variant = "wrap"
  /\ Running
  /\ rpc = "idle"
  /\ pc[h] = "idle"
  /\ \A g \in Handlers : g < h => pc[g] # "idle"
  /\ \E d \in WrapButtons : req' = Upd(req, h, [user |-> 1, data |-> d])
  /\ pc' = Upd(pc, h, "answer")
  /\ UNCHANGED <<variant, resolveVars, loc, activeDownloads, files, now, sink>>

\* answerCbQuery settles (outside the try): editMessageText('Preparing download') is awaited
WrapAnswered(h) ==
  /\ variant = "wrap"
  /\ pc[h] = "answer"
  /\ \E ok \in BOOLEAN :
       IF ok THEN Step(h, "prep", loc[h], files, sink[h])
       ELSE Step(h, "done", [loc[h] EXCEPT !.outcome = "unhandled"], files, sink[h])
  /\ UNCHANGED <<variant, resolveVars, req, activeDownloads, now>>

\* editMessageText('Preparing download') settles: downloadAudio / downloadVideo
\* is called; videoId.replace throws on an undefined videoId; otherwise the
\* output path is computed and editMessageText('Downloading') is awaited
WrapPrepared(h) ==
  /\ variant = "wrap"
  /\ pc[h] = "prep"
  /\ \E ok \in BOOLEAN :
       LET d == WrapParse(req[h].data)
           l == [loc[h] EXCEPT !.kind = d.kind, !.quality = d.quality, !.url = d.videoId]
       IN IF ~ok
          THEN Step(h, "done", [loc[h] EXCEPT !.outcome = "unhandled"], files, sink[h])
          ELSE IF d.kind \notin {"audio", "video"}
          THEN Step(h, "done", [l EXCEPT !.outcome = "returned"], files, sink[h])
          ELSE IF d.videoId = None
          THEN Step(h, "cberr", [l EXCEPT !.outcome = "threw"], files, sink[h])
          ELSE Step(h, "edit1",
                    [l EXCEPT !.path = WrapOutputPath(d.kind, d.videoId, d.quality)],
                    files, sink[h])
  /\ UNCHANGED <<variant, resolveVars, req, activeDownloads, now>>

\* editMessageText('Downloading') settles: ytDlp.execPromise is awaited
WrapEdit1(h) ==
  /\ variant = "wrap"
  /\ pc[h] = "edit1"
  /\ \E ok \in BOOLEAN :
       IF ok THEN Step(h, "ytdlp", [loc[h] EXCEPT !.fetched = TRUE], files, sink[h])
       ELSE WrapCatch(h, files)
  /\ UNCHANGED <<variant, resolveVars, req, activeDownloads, now>>

\* after yt-dlp: existsSync, statSync and the 50 MB test, then the next
\* editMessageText is awaited
WrapSizeCheck(h, fs) ==
  IF loc[h].path \notin DOMAIN fs THEN WrapCatch(h, fs)
  ELSE LET size == fs[loc[h].path].size
       IN IF WrapTooLarge(size)
          THEN Step(h, "toolarge", [loc[h] EXCEPT !.fileSize = size, !.err = "too_large"],
                    fs, sink[h])
          ELSE Step(h, "edit2", [loc[h] EXCEPT !.fileSize = size], fs, sink[h])

\* ytDlp.execPromise settles: yt-dlp wrote the output file (it leaves a file
\* that is already there), wrote nothing, or failed
WrapYtDlp(h) ==
  /\ variant = "wrap"
  /\ pc[h] = "ytdlp"
  /\ \/ \E size \in FileSizes :
          WrapSizeCheck(h, IF Exists(loc[h].path) THEN files
                           ELSE WriteFile(files, loc[h].path, h, size))
     \/ WrapSizeCheck(h, files)
     \/ WrapCatch(h, files)
  /\ UNCHANGED <<variant, resolveVars, req, activeDownloads, now>>

\* editMessageText('File too large') settles: unlinkSync(outputPath) and return
\* (unlinkSync throws when the file is gone)
WrapTooLargeMsg(h) ==
  /\ variant = "wrap"
  /\ pc[h] = "toolarge"
  /\ \E ok \in BOOLEAN :
       IF ok /\ Exists(loc[h].path)
       THEN Step(h, "done", [loc[h] EXCEPT !.outcome = "returned"],
                 Unlink(files, {loc[h].path}), sink[h])
       ELSE WrapCatch(h, files)
  /\ UNCHANGED <<variant, resolveVars, req, activeDownloads, now>>

\* editMessageText('Uploading') settles: getVideoInfo is awaited
WrapEdit2(h) ==
  /\ variant = "wrap"
  /\ pc[h] = "edit2"
  /\ \E ok \in BOOLEAN :
       IF ok THEN Step(h, "info", loc[h], files, sink[h]) ELSE WrapCatch(h, files)
  /\ UNCHANGED <<variant, resolveVars, req, activeDownloads, now>>

\* getVideoInfo settles: replyWithVideo / replyWithAudio is called with the file
WrapInfo(h) ==
  /\ variant = "wrap"
  /\ pc[h] = "info"
  /\ \E ok \in BOOLEAN :
       IF ok THEN Step(h, "upload", Uploading(loc[h]), files, Handed(h, loc[h].path))
       ELSE WrapCatch(h, files)
  /\ UNCHANGED <<variant, resolveVars, req, activeDownloads, now>>

\* replyWithVideo / replyWithAudio settles: ctx.deleteMessage is awaited
WrapUpload(h) ==
  /\ variant = "wrap"
  /\ pc[h] = "upload"
  /\ \E ok \in BOOLEAN :
       IF ok THEN Step(h, "delmsg", loc[h], files, sink[h])
       ELSE Step(h, "cberr", [loc[h] EXCEPT !.outcome = "threw", !.uploadErr = TRUE],
                 Unlink(files, PathsOf(h)), sink[h])
  /\ UNCHANGED <<variant, resolveVars, req, activeDownloads, now>>

\* ctx.deleteMessage settles: unlinkSync(outputPath) and return
WrapDelMsg(h) ==
  /\ variant = "wrap"
  /\ pc[h] = "delmsg"
  /\ \E ok \in BOOLEAN :
       IF ok /\ Exists(loc[h].path)
       THEN Step(h, "done", [loc[h] EXCEPT !.outcome = "returned"],
                 Unlink(files, {loc[h].path}), sink[h])
       ELSE WrapCatch(h, files)
  /\ UNCHANGED <<variant, resolveVars, req, activeDownloads, now>>

\* the handler's catch: editMessageText('Download failed ...') settles
WrapCallbackCatch(h) ==
  /\ variant = "wrap"
  /\ pc[h] = "cberr"
  /\ pc' = Upd(pc, h, "done")
  /\ UNCHANGED <<variant, resolveVars, req, loc, activeDownloads, files, now, sink>>

\* the files the sweep removes at time t: now - stats.mtimeMs > 10 * 60 * 1000
SweepRemoves(t) == {p \in DOMAIN files : t - files[p].mtime > SWEEP_AGE}

\* setInterval(cleanupOldFiles, 5 * 60 * 1000): five minutes pass and the
\* sweep of TEMP_DIR runs
CleanupOldFiles ==
  /\ variant = "wrap"
  /\ boot.bot /\ boot.stage # "exited"
  /\ now < MaxSweeps * SWEEP_INTERVAL
  /\ now' = now + SWEEP_INTERVAL
  /\ files' = Unlink(files, SweepRemoves(now'))
  /\ UNCHANGED <<variant, resolveVars, pc, req, loc, activeDownloads, sink>>

WrapNext ==
  \E h \in Handlers :
    \/ WrapCallbackQuery(h)
    \/ WrapAnswered(h)
    \/ WrapPrepared(h)
    \/ WrapEdit1(h)
    \/ WrapYtDlp(h)
    \/ WrapTooLargeMsg(h)
    \/ WrapEdit2(h)
    \/ WrapInfo(h)
    \/ WrapUpload(h)
    \/ WrapDelMsg(h)
    \/ WrapCallbackCatch(h)

-----------------------------------------------------------------------------
(* The ytdl-core + yt-dlp variant's callback handler and sendFormat:
   src/index.js, lines 471-616 *)

\* characters encodeURIComponent leaves alone
Unreserved == Upper \o Lower \o Digits \o "-_.!~*'()"

\* the escapes of the reserved characters that occur in the callback data
Escapes ==
  << <<"{", "%7B">>, <<"}", "%7D">>, <<"\"", "%22">>, <<":", "%3A">>,
     <<",", "%2C">>, <<"/", "%2F">>, <<" ", "%20">> >>

EscapeOf(c) ==
  IF \E i \in 1..Len(Escapes) : Escapes[i][1] = c
  THEN Escapes[CHOOSE i \in 1..Len(Escapes) : Escapes[i][1] = c][2]
  ELSE "%3F"

CharOf(esc) ==
  IF \E i \in 1..Len(Escapes) : Escapes[i][2] = esc
  THEN Escapes[CHOOSE i \in 1..Len(Escapes) : Escapes[i][2] = esc][1]
  ELSE "?"

RECURSIVE EncodeURIComponent(_)
EncodeURIComponent(s) ==
  IF Len(s) = 0 THEN ""
  ELSE (IF Includes(Unreserved, SubSeq(s, 1, 1)) THEN SubSeq(s, 1, 1)
        ELSE EscapeOf(SubSeq(s, 1, 1))) \o EncodeURIComponent(Tail(s))

RECURSIVE DecodeURIComponent(_)
DecodeURIComponent(s) ==
  IF Len(s) = 0 THEN ""
  ELSE IF SubSeq(s, 1, 1) = "%" /\ Len(s) >= 3
  THEN CharOf(SubSeq(s, 1, 3)) \o DecodeURIComponent(SubSeq(s, 4, Len(s)))
  ELSE SubSeq(s, 1, 1) \o DecodeURIComponent(Tail(s))

Quoted(s) == "\"" \o s \o "\""

\* JSON.stringify of an object whose values are strings
RECURSIVE JsonMembers(_)
JsonMembers(members) ==
  IF Len(members) = 0 THEN ""
  ELSE Quoted(members[1][1]) \o ":" \o Quoted(members[1][2])
         \o (IF Len(members) > 1 THEN "," ELSE "") \o JsonMembers(Tail(members))

JsonStringify(members) == "{" \o JsonMembers(members) \o "}"

Unquoted(s) == SubSeq(s, 2, Len(s) - 1)

\* JSON.parse(text)[name] for a flat object of strings without ',' or ':'
JsonField(text, name) ==
  LET members == Split(SubSeq(text, 2, Len(text) - 1), ",")
      pairs == [i \in 1..Len(members) |-> Split(members[i], ":")]
      hit == {i \in 1..Len(pairs) : Unquoted(pairs[i][1]) = name}
  IN IF hit = {} THEN None ELSE Unquoted(pairs[CHOOSE i \in hit : TRUE][2])

SendUrl == "youtu.be/abc"

\* `dl:video:${encodeURIComponent(JSON.stringify(r))}:${encodeURIComponent(url)}`
VideoButton(r, url) ==
  "dl:video:"
    \o EncodeURIComponent(JsonStringify(
          << <<"label", r.label>>, <<"itag", r.itag>>, <<"source", r.source>> >>))
    \o ":" \o EncodeURIComponent(url)

\* the renditions getFormatsInfo returns for the sized listing
SizedResolutions == PrimaryCatalog([formats |-> SizedListing, title |-> "clip"]).resolutions

\* the buttons handleUrl builds from a catalog, its Cancel button, and a
\* button whose descriptor names a source this program never wrote
SendButtons ==
  {"dl:audio:" \o EncodeURIComponent(JsonStringify(<< <<"itag", "140">>, <<"source", src>> >>))
     \o ":" \o EncodeURIComponent(SendUrl) :
       src \in {PrimarySourceTag, FallbackSourceTag}}
    \cup
  {"dl:video:" \o EncodeURIComponent(JsonStringify(
       << <<"label", "720p">>, <<"itag", "22">>, <<"source", src>> >>))
     \o ":" \o EncodeURIComponent(SendUrl) :
       src \in {PrimarySourceTag, FallbackSourceTag, "other"}}
    \cup {VideoButton(SizedResolutions[i], SendUrl) : i \in 1..Len(SizedResolutions)}
    \cup {"cancel:" \o EncodeURIComponent(SendUrl)}

\* the handler's catch around sendFormat: ctx.reply('Failed to prepare file')
\* is awaited inside its own try / catch
SendThrows(h, l) == Step(h, "cberr", [l EXCEPT !.outcome = "threw"], files, sink[h])

\* bot.on('callback_query'): a button is pressed; 'cancel:' awaits
\* editMessageText('Cancelled.'), a download button awaits answerCbQuery
SendCallbackQuery(h) ==
  /\ variant = "fallback"
  /\ Running
  /\ rpc = "idle"
  /\ pc[h] = "idle"
  /\ \A g \in Handlers : g < h => pc[g] # "idle"
  /\ \E d \in SendButtons :
       /\ req' = Upd(req, h, [user |-> 1, data |-> d])
       /\ LET parts == Split(d, ":")
          IN IF StartsWith(d, "cancel:") THEN pc' = Upd(pc, h, "cancel")
             ELSE IF Len(parts) < 4 THEN pc' = Upd(pc, h, "cberr")
             ELSE pc' = Upd(pc, h, "answer")
  /\ UNCHANGED <<variant, resolveVars, loc, activeDownloads, files, now, sink>>

\* editMessageText('Cancelled.') settles; answerCbQuery('Cancelled') follows
SendCancel(h) ==
  /\ variant = "fallback"
  /\ pc[h] = "cancel"
  /\ \E ok \in BOOLEAN :
       Step(h, IF ok THEN "cberr" ELSE "done",
            [loc[h] EXCEPT !.outcome = IF ok THEN "cancelled" ELSE "unhandled"],
            files, sink[h])
  /\ UNCHANGED <<variant, resolveVars, req, activeDownloads, now>>

\* answerCbQuery('Preparing ...') settles: sendFormat is called with the
\* decoded payload and awaits replyWithChatAction
SendAnswered(h) ==
  /\ variant = "fallback"
  /\ pc[h] = "answer"
  /\ \E ok \in BOOLEAN :
       LET parts == Split(req[h].data, ":")
           payload == DecodeURIComponent(parts[3])
       IN IF ok
          THEN Step(h, "chataction",
                    [loc[h] EXCEPT !.kind = parts[2],
                                   !.quality = JsonField(payload, "itag"),
                                   !.source = JsonField(payload, "source"),
                                   !.url = DecodeURIComponent(parts[4])],
                    files, sink[h])
          ELSE Step(h, "done", [loc[h] EXCEPT !.outcome = "unhandled"], files, sink[h])
  /\ UNCHANGED <<variant, resolveVars, req, activeDownloads, now>>

\* the stream pipeline of sendFormat is set up and replyWithDocument is
\* awaited: the backend stream (ytdl.downloadFromInfo or the yt-dlp
\* subprocess) is running
SendStreaming(h, l) ==
  Step(h, "upload", [Uploading(l) EXCEPT !.fetched = TRUE, !.upstream = "running"],
       files, sink[h])

\* a dispatch that would treat every source but 'yt-dlp' as ytdl-core's
BackendDefaulting(source) == IF source = "yt-dlp" THEN "yt-dlp" ELSE "ytdl-core"

\* if (source === 'ytdl') ... if (source === 'yt-dlp') ... : the backend
\* sendFormat fetches with, none for any other source
BackendFor(source) ==
  IF source = "ytdl" THEN "ytdl-core"
  ELSE IF source = "yt-dlp" THEN "yt-dlp"
  ELSE None

\* the characters of the class [\\\/:*?"<>|]
Reserved == "\\/:*?\"<>|"

RECURSIVE StripReserved(_)
\* name.replace(/[\\\/:*?"<>|]+/g, ''), halving the string
StripReserved(s) ==
  IF Len(s) = 0 THEN ""
  ELSE IF Len(s) = 1 THEN (IF Includes(Reserved, s) THEN "" ELSE s)
  ELSE LET m == Len(s) \div 2
       IN StripReserved(SubSeq(s, 1, m)) \o StripReserved(SubSeq(s, m + 1, Len(s)))

\* the length sanitizeFilename cuts a name to
FILENAME_SLICE == 200

\* sanitizeFilename(name)
SanitizeFilename(name) ==
  LET stripped == StripReserved(IF Truthy(name) THEN name ELSE "file")
  IN SubSeq(stripped, 1, IF Len(stripped) < FILENAME_SLICE THEN Len(stripped)
                         ELSE FILENAME_SLICE)

Twice(s) == s \o s

\* a title of 256 characters
LongTitle == Twice(Twice(Twice(Twice(Twice(Twice("abcd"))))))

\* info.videoDetails.title: plain, with a path separator and a line break,
\* longer than any filename, or missing
VideoTitles == {"clip", "a/b\nc", LongTitle, None}

\* (new Date()).toISOString()
IsoDates == {"2026-11-06T11:22:33.000Z"}

\* `${title}.mp3`, `${title}.${ext}` with ext = format.container || 'mp4'
YtdlFilename(title, kind, f) ==
  SanitizeFilename(IF Truthy(title) THEN title ELSE "video")
    \o "." \o (IF kind = "audio" THEN "mp3"
                ELSE IF Truthy(f.container) THEN f.container ELSE "mp4")

\* `${filenameBase}.mp3`, `${filenameBase}.mp4`
YtDlpFilename(date, kind) ==
  SanitizeFilename(date) \o "." \o (IF kind = "audio" THEN "mp3" ELSE "mp4")

\* ytdl.chooseFormat(info.formats, { quality: itag }): the format of that
\* itag in the listing ytdl.getInfo answers with, which may or may not report
\* a contentLength
ChosenFormats(itag) ==
  LET listed == PrimaryFormats \cup {SizedListing[i] : i \in 1..Len(SizedListing)}
      hits == {f \in listed : NumToStr(f.itag) = itag}
  IN hits \cup {[f EXCEPT !.contentLength = None] : f \in hits}

\* the bytes the sink receives from a stream it reads to its end: the
\* content length of a format that reports one
DeliveredSizes(l) == IF l.fileSize # NaN THEN {l.fileSize} ELSE FileSizes \ {0}

\* replyWithChatAction settles: the ytdl branch awaits ytdl.getInfo, the
\* yt-dlp branch spawns yt-dlp and starts the upload, any other source is
\* answered 'Unknown format source'
SendChatAction(h) ==
  /\ variant = "fallback"
  /\ pc[h] = "chataction"
  /\ \E ok \in BOOLEAN :
       IF ~ok THEN SendThrows(h, loc[h])
       ELSE IF BackendFor(loc[h].source) = "ytdl-core"
       THEN Step(h, "getinfo", [loc[h] EXCEPT !.backend = "ytdl-core"], files, sink[h])
       ELSE IF BackendFor(loc[h].source) = "yt-dlp"
       THEN \E date \in IsoDates :
              SendStreaming(h, [loc[h] EXCEPT !.backend = "yt-dlp",
                                              !.filename = YtDlpFilename(date, loc[h].kind)])
       ELSE Step(h, "reply", [loc[h] EXCEPT !.err = "unknown_source"], files, sink[h])
  /\ UNCHANGED <<variant, resolveVars, req, activeDownloads, now>>

\* ytdl.getInfo settles: an audio button starts the stream, the ffmpeg
\* conversion and the upload; a video button chooses the format (which may
\* report a contentLength or none) and starts the stream and the upload
SendGetInfo(h) ==
  /\ variant = "fallback"
  /\ pc[h] = "getinfo"
  /\ \/ SendThrows(h, loc[h])
     \/ /\ loc[h].kind = "audio"
        /\ \E title \in VideoTitles :
             SendStreaming(h, [loc[h] EXCEPT
                                 !.filename = YtdlFilename(title, "audio", NoResult)])
     \/ /\ loc[h].kind # "audio"
        /\ \E f \in ChosenFormats(loc[h].quality), title \in VideoTitles :
             SendStreaming(h, [loc[h] EXCEPT
                                 !.filename = YtdlFilename(title, "video", f),
                                 !.sizeSignal = IF Truthy(f.contentLength) THEN "known"
                                                ELSE "unknown",
                                 !.fileSize = IF Truthy(f.contentLength)
                                              THEN PrimaryLength(f) ELSE NaN])
  /\ UNCHANGED <<variant, resolveVars, req, activeDownloads, now>>

\* ffmpeg emits 'error' during an audio upload: the ytdl branch logs it, the
\* yt-dlp branch also kills the subprocess
SendFfmpegError(h) ==
  /\ variant = "fallback"
  /\ pc[h] = "upload"
  /\ loc[h].kind = "audio"
  /\ ~loc[h].ffmpegErr
  /\ Step(h, "upload",
          [loc[h] EXCEPT !.ffmpegErr = TRUE,
                         !.upstream = IF loc[h].source = "yt-dlp" THEN "stopped" ELSE @],
          files, sink[h])
  /\ UNCHANGED <<variant, resolveVars, req, activeDownloads, now>>

\* replyWithDocument settles: resolved (the sink took the bytes it was sent,
\* the whole stream or what ffmpeg had produced before it failed) and
\* sendFormat returns, or rejected and ctx.reply('Upload failed') is awaited
SendUpload(h) ==
  /\ variant = "fallback"
  /\ pc[h] = "upload"
  /\ \/ \E size \in DeliveredSizes(loc[h]) :
          Step(h, "done",
               [loc[h] EXCEPT !.outcome = "returned",
                              !.upstream = IF loc[h].ffmpegErr THEN @ ELSE "ended"],
               files, Append(sink[h], size))
     \/ Step(h, "reply", [loc[h] EXCEPT !.err = "generic", !.uploadErr = TRUE],
             files, sink[h])
  /\ UNCHANGED <<variant, resolveVars, req, activeDownloads, now>>

\* ctx.reply('Upload failed ...') or ctx.reply('Unknown format source') settles;
\* after a failed upload the yt-dlp branch kills the subprocess, then sendFormat
\* returns; a rejection of the reply reaches the handler's catch (the ytdl
\* branch) or the outer catch of the yt-dlp branch, which replies again
SendReply(h) ==
  /\ variant = "fallback"
  /\ pc[h] = "reply"
  /\ \E ok \in BOOLEAN :
       IF ok
       THEN Step(h, "done",
                 [loc[h] EXCEPT !.outcome = "returned",
                                !.upstream = IF @ = "running" /\ loc[h].source = "yt-dlp"
                                                  /\ loc[h].err = "generic"
                                             THEN "stopped" ELSE @],
                 files, sink[h])
       ELSE IF loc[h].source = "yt-dlp" /\ loc[h].err = "generic"
       THEN Step(h, "reply", [loc[h] EXCEPT !.err = "reply_failed"], files, sink[h])
       ELSE SendThrows(h, loc[h])
  /\ UNCHANGED <<variant, resolveVars, req, activeDownloads, now>>

\* the handler's last await settles: ctx.reply('Failed to prepare file') in
\* the catch, or a bare answerCbQuery
SendCallbackCatch(h) ==
  /\ variant = "fallback"
  /\ pc[h] = "cberr"
  /\ pc' = Upd(pc, h, "done")
  /\ UNCHANGED <<variant, resolveVars, req, loc, activeDownloads, files, now, sink>>

\* the keyboard of handleUrl stays on screen while no button is pressed: the
\* clock of this variant counts the periods of pendingTTLSeconds +
\* sweepIntervalSeconds since the keyboard was sent; no timer of the program
\* runs and no state of the program changes
SelectionAges ==
  /\ variant = "fallback"
  /\ Running
  /\ rpc = "idle"
  /\ \A h \in Handlers : pc[h] = "idle"
  /\ now < MaxTicks
  /\ now' = now + 1
  /\ UNCHANGED <<variant, resolveVars, pc, req, loc, activeDownloads, files, sink>>

SendNext ==
  \E h \in Handlers :
    \/ SendCallbackQuery(h)
    \/ SendCancel(h)
    \/ SendAnswered(h)
    \/ SendChatAction(h)
    \/ SendGetInfo(h)
    \/ SendFfmpegError(h)
    \/ SendUpload(h)
    \/ SendReply(h)
    \/ SendCallbackCatch(h)

-----------------------------------------------------------------------------
(* The running program *)

Variants == {"fallback", "active", "playdl", "wrap", "ytdlonly"}

\* no request has been received yet
Quiet ==
  /\ rpc = "idle"
  /\ primaryCalls = 0
  /\ fallbackCalls = 0
  /\ caught = NoErr
  /\ result = NoResult
  /\ raw = <<>>
  /\ menu = NoMenu
  /\ pc = [h \in Handlers |-> "idle"]
  /\ req = [h \in Handlers |-> NoReq]
  /\ loc = [h \in Handlers |-> NoLoc]
  /\ activeDownloads = {}
  /\ files = NoFiles
  /\ now = 0
  /\ sink = [h \in Handlers |-> <<>>]

InitOf(vs) ==
  /\ variant \in vs
  /\ boot = Launched
  /\ Quiet

Init == InitOf(Variants)

\* the programs that test BOT_TOKEN first: `if (!BOT_TOKEN) { ...; process.exit(1) }`
ChecksToken == variant \in {"fallback", "active", "ytdlonly"}

\* node-telegram-bot-api with { polling: true } polls from the constructor;
\* Telegraf polls from bot.launch()
PollsOnConstruction == variant \in {"active", "playdl"}

\* the top-level code up to `new TelegramBot(token, ...)` / `new Telegraf(token)`
ConstructBot ==
  /\ boot.stage = "start"
  /\ boot' = IF ChecksToken /\ ~boot.token
               THEN [boot EXCEPT !.stage = "exited"]
               ELSE [boot EXCEPT !.bot = TRUE,
                                 !.stage = IF PollsOnConstruction THEN "polling"
                                           ELSE "constructed"]
  /\ UNCHANGED <<variant, rpc, primaryCalls, fallbackCalls, caught, result, raw, menu,
                 pc, req, loc, activeDownloads, files, now, sink>>

\* startBot of the yt-dlp-wrap program awaits setupYtDlp first: the binary is
\* downloaded and made executable, or the catch block calls process.exit(1)
SetupYtDlp ==
  /\ variant = "wrap"
  /\ boot.stage = "constructed"
  /\ \E ok \in BOOLEAN :
       boot' = IF ok THEN [boot EXCEPT !.stage = "ready", !.ytdlp = TRUE]
               ELSE [boot EXCEPT !.stage = "exited"]
  /\ UNCHANGED <<variant, rpc, primaryCalls, fallbackCalls, caught, result, raw, menu,
                 pc, req, loc, activeDownloads, files, now, sink>>

\* a startBot that launches the bot without awaiting setupYtDlp
LaunchWithoutSetup ==
  /\ boot.stage \in {"constructed", "ready"}
  /\ boot' = [boot EXCEPT !.stage = IF boot.token THEN "polling" ELSE "exited"]
  /\ UNCHANGED <<variant, rpc, primaryCalls, fallbackCalls, caught, result, raw, menu,
                 pc, req, loc, activeDownloads, files, now, sink>>

\* bot.launch(): without a token its first request is refused, and startBot
\* of the yt-dlp-wrap program catches that and exits
Launch ==
  /\ boot.stage = IF variant = "wrap" THEN "ready" ELSE "constructed"
  /\ boot' = [boot EXCEPT !.stage = IF boot.token THEN "polling" ELSE "exited"]
  /\ UNCHANGED <<variant, rpc, primaryCalls, fallbackCalls, caught, result, raw, menu,
                 pc, req, loc, activeDownloads, files, now, sink>>

StartupNext == ConstructBot \/ SetupYtDlp \/ Launch

\* the process is started, BOT_TOKEN set or not
InitStartupOf(vs) ==
  /\ variant \in vs
  /\ boot \in [token : BOOLEAN, stage : {"start"}, bot : {FALSE}, ytdlp : {FALSE}]
  /\ Quiet

InitStartup == InitStartupOf(Variants)

Next ==
  \/ UrlNext
  \/ WrapUrlNext
  \/ YtdlNext
  \/ ActiveNext
  \/ ActiveLinkNext
  \/ ActiveLongNext
  \/ PlayNext
  \/ WrapNext
  \/ SendNext
  \/ SelectionAges
  \/ ClockTick
  \/ CleanupOldFiles

\* every program of the repository
Spec == Init /\ [][Next]_vars

\* the programs that upload what they fetched, and their download handlers
InitDeliver == InitOf({"fallback", "active", "wrap"})

NextDeliver == SendNext \/ ActiveNext \/ ClockTick \/ WrapNext \/ CleanupOldFiles

SpecDeliver == InitDeliver /\ [][NextDeliver]_vars

\* every program of the repository from the start of its process, with the
\* handler that receives a link (the button handler in the play-dl program,
\* whose link handler starts no download)
NextStartup ==
  \/ StartupNext
  \/ UrlNext
  \/ WrapUrlNext
  \/ YtdlNext
  \/ ActiveLinkNext
  \/ PlayNext
  \/ ClockTick

SpecStartup == InitStartup /\ [][NextStartup]_vars

\* the yt-dlp-wrap program from the start of its process, with its handlers
InitWrapStartup == InitStartupOf({"wrap"})

NextWrapStartup == StartupNext \/ WrapUrlNext \/ WrapNext \/ CleanupOldFiles

SpecWrapStartup == InitWrapStartup /\ [][NextWrapStartup]_vars

\* the fallback variant's resolve
InitResolve == InitOf({"fallback"})

SpecResolve == InitResolve /\ [][ResolveNext]_vars

\* the URL handlers of the three variants that build a selection
InitCatalog == InitOf({"fallback", "wrap", "ytdlonly"})

NextCatalog == UrlNext \/ WrapUrlNext \/ YtdlNext

SpecCatalog == InitCatalog /\ [][NextCatalog]_vars

\* the variant with activeDownloads
InitActive == InitOf({"active"})

NextActive == ActiveNext \/ ClockTick

SpecActive == InitActive /\ [][NextActive]_vars

\* the same variant when every step that can be taken eventually is taken:
\* promises that can settle do settle and timers that are armed do fire
SpecActiveLive == InitActive /\ [][NextActive]_vars /\ WF_vars(NextActive)

\* the activeDownloads variant with its link handler
NextActiveLink == NextActive \/ ActiveLinkNext

SpecActiveLink == InitActive /\ [][NextActiveLink]_vars

\* the activeDownloads variant with videos of both lengths: a run follows
\* either one link request or the button presses
NextActiveLong ==
  \/ /\ \A h \in Handlers : pc[h] = "idle"
     /\ (ActiveLinkNext \/ ActiveHandleLongLink)
  \/ /\ rpc = "idle"
     /\ (NextActive \/ \E h \in Handlers : ActiveLongCallbackQuery(h))

SpecActiveLong == InitActive /\ [][NextActiveLong]_vars

\* the resolve of the ytdl-core + yt-dlp program, and the link handler of the
\* activeDownloads program next to its downloads
InitResolvers == InitOf({"fallback", "active"})

NextResolvers == UrlNext \/ NextActiveLink

SpecResolvers == InitResolvers /\ [][NextResolvers]_vars

\* the play-dl variant without a download guard
InitPlay == InitOf({"playdl"})

NextPlay == PlayNext \/ ClockTick

SpecPlay == InitPlay /\ [][NextPlay]_vars

\* the yt-dlp-wrap variant
InitWrap == InitOf({"wrap"})

NextWrap == WrapNext \/ CleanupOldFiles

SpecWrap == InitWrap /\ [][NextWrap]_vars

\* the callback handlers of the ytdl-core + yt-dlp variant
InitSend == InitOf({"fallback"})

NextSend == SendNext \/ SelectionAges

SpecSend == InitSend /\ [][NextSend]_vars

\* the whole ytdl-core + yt-dlp program: URL handler and callback handlers
NextBot == UrlNext \/ NextSend

SpecBot == InitSend /\ [][NextBot]_vars

\* the two variants that weigh the artifact before the upload
InitTemp == InitOf({"wrap", "active"})

NextTemp == WrapNext \/ CleanupOldFiles \/ ActiveNext \/ ClockTick

SpecTemp == InitTemp /\ [][NextTemp]_vars

-----------------------------------------------------------------------------
(* Properties of getFormatsInfo *)

\* the patterns the specification names for a recoverable extraction failure
NamesRecoverablePattern(msg) ==
  \/ Includes(msg, "Status code: 410")
  \/ Includes(ToLowerCase(msg), "extractor")
  \/ Includes(ToLowerCase(msg), "signature")

\* every video descriptor and the audio descriptor of catalog c carry tag
AllTagged(c, tag) ==
  /\ \A i \in 1..Len(c.resolutions) : c.resolutions[i].source = tag
  /\ c.audio # NoAudio => c.audio.source = tag

\* C1: once the primary backend has failed with a message that holds
\* "Status code: 410" or the extractor / signature patterns, the fallback
\* backend has been invoked exactly once; a catalog returned after such a
\* failure carries source 'yt-dlp' on every video descriptor and on the audio
\* descriptor; a catalog returned by the primary backend was built with zero
\* fallback invocations and carries source 'ytdl' on every descriptor.
C1_FallbackOnceAndTagged ==
  /\ (caught # NoErr /\ NamesRecoverablePattern(caught.message)) => fallbackCalls = 1
  /\ (rpc = "returned" /\ caught # NoErr) =>
       /\ result.kind = "catalog"
       /\ AllTagged(result, "yt-dlp")
  /\ (rpc = "returned" /\ caught = NoErr) =>
       /\ fallbackCalls = 0
       /\ result.kind = "catalog"
       /\ AllTagged(result, "ytdl")

\* a catalog with a video descriptor and an audio descriptor, returned by the
\* fallback after the primary failed with status 410
C1_Witness ==
  /\ rpc = "returned"
  /\ caught.message = "Status code: 410"
  /\ fallbackCalls = 1
  /\ Len(result.resolutions) >= 1
  /\ result.audio # NoAudio

\* C2: when the primary backend failed with a recoverable error and the
\* fallback failed too (it threw, or its dump held no formats), the error
\* getFormatsInfo throws is the error object of the primary backend.
C2_OriginalErrorSurfaced ==
  (rpc = "threw" /\ fallbackCalls = 1) =>
     /\ result = Thrown(caught)
     /\ result.err.origin = "primary"

\* both backends failed: a signature failure of the primary, then the fallback
C2_Witness ==
  /\ rpc = "threw"
  /\ fallbackCalls = 1
  /\ caught.message = "Signature decipher failed"

\* C3: a primary failure whose message matches none of 'Status code: 410',
\* 'extractor', 'signature' never invokes the fallback, and getFormatsInfo
\* throws that error unchanged.
C3_TerminalNotRetried ==
  (caught # NoErr /\ ~NamesRecoverablePattern(caught.message)) =>
     /\ fallbackCalls = 0
     /\ rpc = "threw"
     /\ result = Thrown(caught)

\* terminal failures have been thrown: a private video, an HTTP 403
C3_Witness ==
  /\ rpc = "threw"
  /\ fallbackCalls = 0
  /\ caught.message \in {"This is a private video", "Status code: 403"}
  /\ result = Thrown(caught)

-----------------------------------------------------------------------------
(* Properties of the callback handlers and the download functions *)

\* the advertised ceiling of the delivery sink, 50 MB
Ceiling == 50 * 1024 * 1024

\* handler h is inside downloadVideo / downloadAudio, past the point where
\* the execution has been admitted
InProgress(h) ==
  pc[h] \in {"status", "prep", "edit1", "stream", "ytdlp", "writing", "edit_conv",
             "ffmpeg", "toolarge", "edit2", "info", "upload", "delmsg", "errmsg",
             "hung"}

\* the files in the temp directory that handler h wrote
CreatedBy(h) == {p \in DOMAIN files : files[p].creator = h}

\* C4: among the triggers of one selection button exactly one starts an
\* execution: two handlers that received the same button press never both
\* start a fetch.
C4_OneExecutionPerSelection ==
  \A g, h \in Handlers :
    (g # h /\ req[g] # NoReq /\ req[g] = req[h]) => ~(loc[g].fetched /\ loc[h].fetched)

\* C5: with the activeDownloads set, no two handlers are inside downloadVideo /
\* downloadAudio with the same key at the same time, and a handler that found
\* its key in the set has started no fetch, named and written no temp file and
\* handed nothing to the sink: it only sends 'Download already in progress'.
C5_OneInFlightPerKey ==
  variant = "active" =>
    /\ \A g, h \in Handlers :
         (g # h /\ InProgress(g) /\ InProgress(h)) => loc[g].key # loc[h].key
    /\ \A h \in Handlers :
         (pc[h] = "dupmsg" \/ loc[h].outcome = "blocked") =>
            /\ ~loc[h].fetched
            /\ PathsOf(h) = {}
            /\ CreatedBy(h) = {}
            /\ sink[h] = <<>>

\* one handler is fetching and a second press of the same button by the same
\* user is being told that the download is in progress
C5_Witness ==
  /\ variant = "active"
  /\ \E g, h \in Handlers :
       /\ pc[g] \in {"stream", "writing"}
       /\ loc[g].fetched
       /\ pc[h] = "dupmsg"
       /\ loc[h].key = loc[g].key

\* C6: nothing larger than the 50 MB ceiling is ever handed to the sink.
C6_NothingOverCeilingHanded ==
  \A h \in Handlers : \A i \in 1..Len(sink[h]) : sink[h][i] <= Ceiling

\* C7: an execution that measured more than the ceiling records the size
\* rejection and hands nothing to the sink, and once its function has returned
\* or thrown no temp file it wrote exists; an execution that measured exactly
\* the ceiling is not rejected for size.
C7_OverCeilingRejected ==
  \A h \in Handlers :
    /\ (loc[h].fileSize # NaN /\ loc[h].fileSize > Ceiling) =>
          /\ loc[h].err = "too_large"
          /\ sink[h] = <<>>
          /\ pc[h] \in {"toolarge", "errmsg", "cberr", "done"}
          /\ pc[h] \in {"cberr", "done"} => CreatedBy(h) = {}
    /\ loc[h].fileSize = Ceiling =>
          /\ loc[h].err # "too_large"
          /\ pc[h] # "toolarge"

\* one execution measured a byte more than the ceiling and has returned
\* without a delivery; another measured exactly the ceiling and delivered
C7_Witness ==
  \E g, h \in Handlers :
    /\ loc[g].fileSize = Ceiling + 1
    /\ pc[g] = "done"
    /\ loc[g].outcome = "returned"
    /\ sink[g] = <<>>
    /\ loc[h].fileSize = Ceiling
    /\ sink[h] = <<Ceiling>>

\* C8: once downloadVideo / downloadAudio has returned or thrown, whichever
\* step failed, no temp file that the execution wrote exists.
C8_NoTempFileLeft ==
  \A h \in Handlers : pc[h] \in {"done", "cberr"} => CreatedBy(h) = {}

\* C9: two executions in progress at the same time use distinct temp paths.
C9_DistinctTempPaths ==
  \A g, h \in Handlers :
    (g # h /\ InProgress(g) /\ InProgress(h)) => PathsOf(g) \cap PathsOf(h) = {}

\* C10: a run of the periodic sweep never deletes a file written by an
\* execution that has not yet finished with it (it is about to upload it, or
\* the upload is running).
C10_SweepSparesOwnedFiles ==
  [][(variant = "wrap" /\ now' # now) =>
        \A h \in Handlers :
          pc[h] \in {"edit2", "info", "upload"} =>
             \A p \in CreatedBy(h) \cap PathsOf(h) : p \in DOMAIN files']_vars

\* C11: every execution that has started eventually ends, done or failed,
\* whichever await stalls: the byte transfer, the ffmpeg conversion or the
\* upload to the sink.
C11_EveryExecutionEnds ==
  \A h \in Handlers : (pc[h] = "status") ~> (pc[h] \in {"done", "cberr"})

\* C12: when the DOWNLOAD_TIMEOUT timer ended the fetch, the write stream of
\* the execution is closed by the time downloadVideo / downloadAudio returns.
C12_TimeoutClosesStreams ==
  \A h \in Handlers :
    (pc[h] = "done" /\ loc[h].err = "timeout") => ~loc[h].writeOpen

\* C13: after ffmpeg has failed during an audio execution, the upload of that
\* execution is never completed as a success, and once sendFormat has returned
\* the backend stream or subprocess feeding ffmpeg has been stopped.
C13_TranscodeErrorAborts ==
  \A h \in Handlers :
    loc[h].ffmpegErr =>
       /\ sink[h] = <<>>
       /\ pc[h] \in {"done", "cberr"} => loc[h].upstream # "running"

\* C14: a video execution whose chosen format reports no size signal opens
\* no backend stream and fetches nothing.
C14_UnknownSizeVideoRejected ==
  \A h \in Handlers :
    (loc[h].kind = "video" /\ loc[h].sizeSignal = "unknown") =>
       /\ ~loc[h].fetched
       /\ loc[h].upstream = "none"

-----------------------------------------------------------------------------
(* Properties of the selection the URL handlers build *)

\* the labels of the video renditions of the selection that was built
CatalogLabels ==
  IF result.kind = "catalog" THEN LabelsOf(result.resolutions)
  ELSE IF result.kind = "qualities" THEN result.qualities
  ELSE <<>>

\* the selection came from ytdl.getInfo (either variant that calls it)
FromPrimary ==
  /\ result.kind = "catalog"
  /\ \/ variant = "ytdlonly"
     \/ variant = "fallback" /\ ~result.fallbackInfo

\* the selection came from the yt-dlp dump of getFormatsInfo
FromFallback == result.kind = "catalog" /\ variant = "fallback" /\ result.fallbackInfo

\* C15: the video renditions of a selection never contain two entries with
\* the same label, whichever backend answered and in every variant that
\* builds a selection
C15_LabelsDistinct ==
  \A i, j \in 1..Len(CatalogLabels) : i # j => CatalogLabels[i] # CatalogLabels[j]

\* a selection built from a listing in which two usable muxed formats share
\* a label
C15_Witness ==
  /\ FromPrimary
  /\ Len(CatalogLabels) >= 1
  /\ \E i, j \in 1..Len(raw) :
       /\ i < j
       /\ PrimaryUsable(raw[i]) /\ PrimaryIsVideo(raw[i])
       /\ PrimaryUsable(raw[j]) /\ PrimaryIsVideo(raw[j])
       /\ raw[i].itag # raw[j].itag
       /\ PrimaryLabel(raw[i]) = PrimaryLabel(raw[j])

\* the positions in the listing of the usable muxed formats that carry a label
VideoGroup(label) ==
  {i \in 1..Len(raw) :
     IF FromFallback
     THEN FallbackUsable(raw[i]) /\ FallbackIsVideo(raw[i]) /\ FallbackLabel(raw[i]) = label
     ELSE IF result.kind = "qualities"
     THEN WrapIsVideo(raw[i]) /\ NumToStr(raw[i].height) \o "p" = label
     ELSE PrimaryUsable(raw[i]) /\ PrimaryIsVideo(raw[i]) /\ PrimaryLabel(raw[i]) = label}

\* the content length a format reports, in bytes; 0 when it reports none
ReportedLength(f) == IF FromFallback THEN f.filesize ELSE PrimaryLength(f)

\* the rendition r of the selection stands for the format f of the listing
EntryIs(r, f) ==
  IF FromFallback THEN r.itag = FallbackId(f)
  ELSE IF variant = "ytdlonly" THEN r.itag = f.itag
  ELSE r.itag = NumToStr(f.itag)

\* C16: within each label group of muxed formats the selection keeps a format
\* with the largest reported content length, compared as a number of bytes,
\* and the first format of the group when none reports a length; on the
\* ytdl-core branch, on the yt-dlp branch and in the ytdl-core-only variant
C16_LargestKnownLengthKept ==
  (FromPrimary \/ FromFallback) =>
    \A k \in 1..Len(result.resolutions) :
      LET r == result.resolutions[k]
          g == VideoGroup(r.label)
      IN \E i \in g :
           /\ EntryIs(r, raw[i])
           /\ \A j \in g : ReportedLength(raw[j]) <= ReportedLength(raw[i])
           /\ (\A j \in g : ReportedLength(raw[j]) = 0) => \A j \in g : i <= j

\* a label that starts with digits
IsNumericLabel(label) == LeadingDigits(label) # ""

\* the quality a numeric label names: the number its leading digits spell
QualityOf(label) == DigitsValue(LeadingDigits(label), 0)

\* two labels the ordering cannot tell apart
SameQuality(a, b) ==
  IF IsNumericLabel(a) /\ IsNumericLabel(b) THEN QualityOf(a) = QualityOf(b)
  ELSE ~IsNumericLabel(a) /\ ~IsNumericLabel(b)

\* where the listing first shows a format with this label
FirstSeen(label) == CHOOSE i \in VideoGroup(label) : \A j \in VideoGroup(label) : i <= j

\* C17: the labels of a selection are in descending order of the quality
\* their leading digits spell, labels without leading digits come after every
\* numeric label, and labels of equal rank keep the order in which the
\* listing first showed them
C17_LabelsDescending ==
  \A i, j \in 1..Len(CatalogLabels) :
    i < j =>
      LET a == CatalogLabels[i]
          b == CatalogLabels[j]
      IN /\ (IsNumericLabel(a) /\ IsNumericLabel(b)) => QualityOf(a) >= QualityOf(b)
         /\ IsNumericLabel(b) => IsNumericLabel(a)
         /\ SameQuality(a, b) => FirstSeen(a) < FirstSeen(b)

\* a selection whose listing was not in order, with two labels of the same
\* quality and a label without digits
C17_Witness ==
  /\ FromFallback
  /\ Len(CatalogLabels) >= 3
  /\ CatalogLabels[1] # FallbackLabel(raw[1])
  /\ \E i \in 1..Len(CatalogLabels) : ~IsNumericLabel(CatalogLabels[i])
  /\ \E i, j \in 1..Len(CatalogLabels) :
       i < j /\ SameQuality(CatalogLabels[i], CatalogLabels[j])

\* C18: a selection offers at most five video renditions, in every variant
\* that builds one
C18_AtMostFiveRenditions == Len(CatalogLabels) <= 5

\* the positions in the listing of the formats with audio and without video
AudioOnly ==
  {i \in 1..Len(raw) :
     IF FromFallback THEN FallbackIsAudio(raw[i]) ELSE PrimaryIsAudio(raw[i])}

\* those of them that pass the filter the builder applies first: a declared
\* container on the ytdl-core branch, a format id on the yt-dlp branch
UsableAudioOnly ==
  {i \in AudioOnly :
     IF FromFallback THEN FallbackUsable(raw[i]) ELSE PrimaryUsable(raw[i])}

\* the bitrate a format reports, 0 when it reports none
KnownBitrate(f) == IF FromFallback THEN FallbackBitrate(f) ELSE PrimaryBitrate(f)

\* the selection carries an audio descriptor
HasAudioDescriptor ==
  IF variant = "ytdlonly" THEN result.audioItag # NoItag ELSE result.audio # NoAudio

\* the audio descriptor of the selection stands for the format f
DescriptorIs(f) ==
  IF FromFallback THEN result.audio.itag = FallbackId(f)
  ELSE IF variant = "ytdlonly" THEN result.audioItag = f.itag
  ELSE result.audio.itag = NumToStr(f.itag)

\* the descriptor is the first format of highest bitrate among candidates
BestOf(candidates) ==
  IF candidates = {} THEN ~HasAudioDescriptor
  ELSE /\ HasAudioDescriptor
       /\ \E i \in candidates :
            /\ DescriptorIs(raw[i])
            /\ \A j \in candidates :
                 /\ KnownBitrate(raw[j]) <= KnownBitrate(raw[i])
                 /\ j < i => KnownBitrate(raw[j]) < KnownBitrate(raw[i])

\* C19 as stated: whenever the raw list has an audio-only format, the audio
\* descriptor is the audio-only format of the raw list with the highest known
\* bitrate, the first among equals; without one the descriptor is absent
C19_BestAudioOfRawList == (FromPrimary \/ FromFallback) => BestOf(AudioOnly)

\* C19: the selection has at most one audio descriptor; it is the first
\* format of highest known bitrate among the audio-only formats that pass the
\* builder's filter (a declared container, or a format id on the yt-dlp
\* branch), never a format with video, and it is absent when no audio-only
\* format passes the filter
C19_BestUsableAudio == (FromPrimary \/ FromFallback) => BestOf(UsableAudioOnly)

\* a selection whose listing shows a better audio-only format after a worse one
C19_Witness ==
  /\ FromPrimary
  /\ HasAudioDescriptor
  /\ \E i, j \in UsableAudioOnly :
       i < j /\ KnownBitrate(raw[i]) < KnownBitrate(raw[j])

\* the URL handler built a selection and edited its status message
SelectionShown == result.kind \in {"catalog", "qualities"} /\ menu # NoMenu

\* the positions in the listing of the formats a video rendition can come from
VideoCapable ==
  {i \in 1..Len(raw) :
     IF FromFallback THEN FallbackUsable(raw[i]) /\ FallbackIsVideo(raw[i])
     ELSE IF result.kind = "qualities" THEN WrapIsVideo(raw[i])
     ELSE PrimaryUsable(raw[i]) /\ PrimaryIsVideo(raw[i])}

\* the positions in the listing of the formats an audio rendition can come from
AudioCapable ==
  IF result.kind = "qualities"
  THEN {i \in 1..Len(raw) : FallbackIsAudio(raw[i])}
  ELSE UsableAudioOnly

\* C20: a listing with no video-capable and no audio-only format ends in the
\* explicit 'no downloadable formats' answer instead of an error, that answer
\* is given in no other case, and a listing with only audio-only formats
\* still ends in a selection that offers the audio rendition
C20_NoFormatsExactlyWhenEmpty ==
  SelectionShown =>
    /\ (menu = NoFormatsMenu) <=> (VideoCapable = {} /\ AudioCapable = {})
    /\ (VideoCapable = {} /\ AudioCapable # {}) =>
         (menu.text = "choose" /\ menu.audio)

-----------------------------------------------------------------------------
(* Properties of a selection over time, of the backends and of the upload *)

\* C22: a selection that was not used within pendingTTLSeconds +
\* sweepIntervalSeconds of its creation is gone: a button pressed after that
\* time starts no transfer
C22_ExpiredSelectionStartsNothing ==
  now >= 1 =>
    \A h \in Handlers :
      /\ ~loc[h].fetched
      /\ loc[h].upstream = "none"
      /\ sink[h] = <<>>

\* sendFormat of handler h has been entered with a decoded descriptor
Dispatched(h) == pc[h] \in {"getinfo", "upload", "reply", "cberr", "done"} /\ loc[h].source # None

\* C23: sendFormat fetches through the backend that produced the descriptor
\* (source 'ytdl' only through ytdl-core, source 'yt-dlp' only through the
\* yt-dlp subprocess); a descriptor of any other source opens no fetch
\* stream, reaches no upload, and sendFormat returns after answering
\* 'Unknown format source'
C23_SameBackendFetches ==
  \A h \in Handlers :
    /\ loc[h].source = PrimarySourceTag => loc[h].backend \in {None, "ytdl-core"}
    /\ loc[h].source = FallbackSourceTag => loc[h].backend \in {None, "yt-dlp"}
    /\ (loc[h].fetched /\ loc[h].source = PrimarySourceTag) => loc[h].backend = "ytdl-core"
    /\ (loc[h].fetched /\ loc[h].source = FallbackSourceTag) => loc[h].backend = "yt-dlp"
    /\ (Dispatched(h) /\ loc[h].source \notin {PrimarySourceTag, FallbackSourceTag}) =>
         /\ loc[h].backend = None
         /\ ~loc[h].fetched
         /\ loc[h].upstream = "none"
         /\ sink[h] = <<>>
         /\ loc[h].outcome = "returned" => loc[h].err = "unknown_source"

\* one press of each kind has run: a descriptor of an unknown source was
\* answered, and a descriptor of the yt-dlp branch was delivered
C23_Witness ==
  \E g, h \in Handlers :
    /\ loc[g].source = "other" /\ pc[g] = "done" /\ loc[g].outcome = "returned"
    /\ loc[h].source = FallbackSourceTag /\ pc[h] = "done" /\ Len(sink[h]) = 1

\* where an execution is after its upload failed: reporting the failure in a
\* catch block, or ended
ReportingOrEnded(h) == pc[h] \in {"errmsg", "reply", "cberr", "done"}

\* C24: an execution invokes the sink's upload at most once; after a failed
\* upload it only reports the failure and ends, with no second upload and no
\* second fetch
C24_UploadAtMostOnce ==
  \A h \in Handlers :
    /\ loc[h].uploads <= 1
    /\ Len(sink[h]) <= 1
    /\ loc[h].uploadErr => (ReportingOrEnded(h) /\ loc[h].uploads = 1)

\* an execution whose upload failed has ended, next to one that delivered
C24_Witness ==
  \E g, h \in Handlers :
    /\ loc[g].uploadErr /\ pc[g] = "done"
    /\ ~loc[h].uploadErr /\ loc[h].uploads = 1 /\ pc[h] = "done"

\* sendFormat of handler h runs on the descriptor the sized listing's catalog
\* holds under this label
Pressed(h, label) ==
  \E i \in 1..Len(SizedResolutions) :
    /\ SizedResolutions[i].label = label
    /\ loc[h].kind = "video"
    /\ loc[h].quality = SizedResolutions[i].itag
    /\ loc[h].source = SizedResolutions[i].source

\* C25: for the listing 1080p (80,000,000 bytes), 720p (40,000,000 bytes) and
\* one audio-only format (bitrate 128000) the catalog lists 1080p, then 720p,
\* and one audio descriptor; executing the 1080p selection ends with no
\* delivery (it is over the 50 MB ceiling), executing the 720p selection
\* delivers its 40,000,000 bytes once
C25_SizedListingScenario ==
  /\ (rpc = "returned" /\ raw = SizedListing) =>
       /\ CatalogLabels = <<"1080p", "720p">>
       /\ result.audio = [itag |-> "141", source |-> PrimarySourceTag]
  /\ \A h \in Handlers :
       /\ (Pressed(h, "1080p") /\ loc[h].fileSize = 80000000) => sink[h] = <<>>
       /\ (Pressed(h, "720p") /\ loc[h].fileSize = 40000000 /\ pc[h] = "done"
             /\ ~loc[h].uploadErr /\ loc[h].outcome = "returned") =>
            sink[h] = <<40000000>>

\* the characters a filename must not carry: path separators and controls
Forbidden == "/\\\n\t\r"

\* C26: the filename passed to the sink is sanitized: no path separator, no
\* control character, and at most 200 characters
C26_FilenameSanitized ==
  \A h \in Handlers :
    loc[h].filename # None =>
      /\ Len(loc[h].filename) <= 200
      /\ \A i \in 1..Len(loc[h].filename) :
           ~Includes(Forbidden, SubSeq(loc[h].filename, i, i))

\* C27: without BOT_TOKEN no program of the repository starts: the process
\* exits before the bot object is constructed, before polling is launched
\* and before any request handler runs
C27_NoStartWithoutToken ==
  ~boot.token =>
    /\ ~boot.bot
    /\ boot.stage \in {"start", "exited"}
    /\ rpc = "idle"
    /\ \A h \in Handlers : pc[h] = "idle"

\* C28: with the activeDownloads set, a user has at most one download in
\* progress at any time, whatever its URL or quality, video or audio: two
\* executions of one user are never in progress together, and never have
\* both started a fetch
C28_OneDownloadPerUser ==
  variant = "active" =>
    \A g, h \in Handlers :
      (g # h /\ InProgress(g) /\ InProgress(h)) =>
         /\ req[g].user # req[h].user
         /\ ~(req[g].user = req[h].user /\ loc[g].fetched /\ loc[h].fetched)

\* a download of handler h is in progress for the user and URL of the link
\* request that handleYouTubeLink received
DownloadOfLink(h) ==
  /\ InProgress(h)
  /\ req[h].user = result.user
  /\ loc[h].url = result.url

\* C29: with the activeDownloads set, a link request of user u for URL x that
\* arrives while a download of u for x is in progress is refused with 'You
\* already have an active download for this video' and fetches no video info
C29_LinkRefusedWhileDownloading ==
  [][(variant = "active" /\ rpc = "idle" /\ rpc' # "idle"
        /\ \E h \in Handlers : InProgress(h) /\ DownloadOfLink(h)')
       => (menu' = RefusedMenu /\ primaryCalls' = primaryCalls)]_vars

\* C30: once downloadVideo / downloadAudio has returned or thrown, whichever
\* step failed, its key has left activeDownloads: every key in the set is
\* held by an execution that is in progress
C30_KeyHeldOnlyWhileInProgress ==
  variant = "active" =>
    \A key \in activeDownloads :
      \E h \in Handlers : InProgress(h) /\ loc[h].key = key

\* the video ids and qualities of the buttons pressed in the yt-dlp-wrap program
WrapIds == {"abc", "a_c"}

WrapQualities == {"720p"}

\* C31: in the yt-dlp-wrap program the callback handler decodes from every
\* button of handleYouTubeUrl, `video_<quality>_<id>` and `audio_<id>`, the
\* kind, the quality and the whole video id that were encoded, and downloads
\* that video
C31_SelectionRoundTrips ==
  variant = "wrap" =>
    \A h \in Handlers :
      loc[h].kind # None =>
        \A id \in WrapIds :
          /\ \A q \in WrapQualities :
               req[h].data = WrapVideoData(q, id) =>
                 loc[h].kind = "video" /\ loc[h].quality = q /\ loc[h].url = id
          /\ req[h].data = WrapAudioData(id) =>
               loc[h].kind = "audio" /\ loc[h].url = id

\* a resolve or a download handler of the program has started
HandlerRan == rpc # "idle" \/ \E h \in Handlers : pc[h] # "idle"

\* C32: the yt-dlp-wrap program receives updates only after setupYtDlp has
\* completed; when the setup fails the process exits, and no resolve or
\* download handler ever runs while the yt-dlp binary is not ready
C32_LaunchedAfterSetup ==
  variant = "wrap" =>
    /\ boot.stage = "polling" => boot.ytdlp
    /\ ~boot.ytdlp => ~HandlerRan

\* the setup completed, the bot was launched and a download handler fetched
C32_Witness ==
  /\ variant = "wrap"
  /\ boot.ytdlp
  /\ boot.stage = "polling"
  /\ \E h \in Handlers : loc[h].fetched

\* the link request was for a video longer than MAX_DURATION seconds
LongLink == result.kind = "link" /\ DurationOf(result.url) > MAX_DURATION

Failed(h) == loc[h].err # None

\* C34: with the activeDownloads set, a failure of the fetch, the transcode,
\* the size check or the upload inside downloadVideo / downloadAudio ends in
\* the error message and a normal return: nothing propagates to the
\* callback_query handler's catch or out of the handler, and the execution
\* ends returned
C34_FailureBecomesMessage ==
  variant = "active" =>
    \A h \in Handlers :
      Failed(h) =>
        /\ pc[h] \in {"errmsg", "done"}
        /\ loc[h].outcome \notin {"threw", "unhandled"}
        /\ pc[h] = "done" => loc[h].outcome = "returned"

\* one execution ended after a size rejection, another after a failed upload
C34_Witness ==
  /\ variant = "active"
  /\ \E g, h \in Handlers :
       /\ pc[g] = "done" /\ loc[g].err = "too_large" /\ loc[g].outcome = "returned"
       /\ pc[h] = "done" /\ loc[h].uploadErr /\ loc[h].outcome = "returned"

\* C35: with the activeDownloads set, an execution that measured size 0 for
\* its downloaded video or its converted audio (the file is empty or missing)
\* fails with an error, hands nothing to the sink, and has removed the temp
\* files it wrote by the time it ends
C35_EmptyArtifactNotHanded ==
  variant = "active" =>
    \A h \in Handlers :
      loc[h].fileSize = 0 =>
        /\ Failed(h)
        /\ loc[h].uploads = 0
        /\ sink[h] = <<>>
        /\ pc[h] = "done" => CreatedBy(h) = {}

\* one execution measured an empty file and ended, another one delivered
C35_Witness ==
  /\ variant = "active"
  /\ \E g, h \in Handlers :
       /\ loc[g].fileSize = 0 /\ pc[g] = "done"
       /\ pc[h] = "done" /\ Len(sink[h]) = 1 /\ loc[h].fileSize > 0

\* a step of handleYouTubeLink / getFormatsInfo / handleUrl
ResolveStep == rpc' # rpc \/ menu' # menu \/ result' # result

\* C36: a resolve request leaves the shared state as it is: no step of
\* handleYouTubeLink or getFormatsInfo, succeeding or failing, adds a key to
\* activeDownloads or removes one, or creates or deletes a temp file
C36_ResolveLeavesSharedState ==
  [][ResolveStep => (activeDownloads' = activeDownloads /\ files' = files)]_vars

\* the link handler awaits play.video_info while a download holds its key and
\* has written its temp file
C36_Witness ==
  /\ variant = "active"
  /\ rpc = "linkinfo"
  /\ \E h \in Handlers :
       InProgress(h) /\ loc[h].key \in activeDownloads /\ CreatedBy(h) # {}

=============================================================================
